---- MODULE Spec2Model ----
(***************************************************************************)
(* Model of the homelab-dev-tools commit-message generator                 *)
(* (generate-commit.sh with the context-exceeded retry loop): its          *)
(* preconditions, the truncate / render / POST loop, the failure handler   *)
(* and the final result, plus the pure text and sizing functions it uses.  *)
(*                                                                         *)
(* Text is a sequence of one-character strings. A template additionally    *)
(* may hold the element INPUT_TOKEN, standing for the literal "{{INPUT}}". *)
(***************************************************************************)
EXTENDS Integers, Sequences, FiniteSets, TLC

VARIABLES
  MAX_CHARS,      \* LLM_DIFF_MAX_CHARS as configured for this invocation
  MAX_RETRIES,    \* LLM_MAX_RETRIES as configured for this invocation
  SHOW_DIFF,      \* --show-diff given
  OUT_FILE,       \* --out given
  health,         \* what GET /health answers: [code, loading]
  staged,         \* TRUE iff the index holds staged changes
  system_file,    \* the system prompt file: Missing or its content
  user_file,      \* the user prompt file: Missing or its content
  pc,             \* position of the script
  bundle,         \* $bundle
  system_tpl,     \* $system_tpl
  user_tpl,       \* $user_tpl
  attempt,        \* $attempt
  cur_max,        \* $cur_max
  input,          \* $input, the truncated bundle of the latest attempt
  user_prompt,    \* $user_prompt of the latest attempt
  raw,            \* $raw
  msg,            \* $msg
  http_code,      \* call_llm's local http_code of the latest attempt
  body,           \* call_llm's local body of the latest attempt
  LLM_ERR_HTTP,   \* the global the failure handler reads
  LLM_ERR_BODY,   \* the global the failure handler reads
  tmp_files,      \* the files call_llm made with mktemp that are on disk
  posts,          \* the POSTs to /v1/chat/completions, in order: <<cur_max, input>>
  bundler_calls,  \* number of build_diff_bundle calls
  stdout,         \* lines written to stdout
  stderr,         \* lines written to stderr
  out_file,       \* content of the --out file: NotWritten or the text
  exit_code,      \* Running, or the exit status
  call            \* a pure function applied to drawn inputs (function specs)

pipeline_vars ==
  << MAX_CHARS, MAX_RETRIES, SHOW_DIFF, OUT_FILE, health, staged, system_file,
     user_file, pc, bundle, system_tpl, user_tpl, attempt, cur_max, input,
     user_prompt, raw, msg, http_code, body, LLM_ERR_HTTP, LLM_ERR_BODY,
     tmp_files, posts, bundler_calls, stdout, stderr, out_file, exit_code >>

vars == << pipeline_vars, call >>

----------------------------------------------------------------------------
\* Bounds of the model

\* longest text drawn as a bundle or as an argument of truncate
MaxLen == 12
\* longest bundle drawn in the pipeline
MaxBundleLen == 3
\* largest small LLM_DIFF_MAX_CHARS drawn in the pipeline (0..MaxSmallChars)
MaxSmallChars == 3
\* largest LLM_MAX_RETRIES drawn
MaxRetriesBound == 3
\* largest small token count drawn for n_prompt_tokens and n_ctx
MaxTok == 12
\* currentMax is drawn from FloorChars - Spread .. FloorChars + Spread
Spread == 6
\* largest LLM_HEALTH_TIMEOUT_SEC drawn for wait_health
MaxHealthTimeout == 5
\* largest number of staged paths in a run of the commit flow
MaxStaged == 2
\* largest number of install.sh / uninstall.sh runs in one history
MaxRuns == 3
\* process ids are drawn from 1..MaxPid
MaxPid == 3
\* a message is made of at most MaxSegs segments
MaxSegs == 3
\* the confirmation is asked again at most MaxAsks times
MaxAsks == 2
\* a message handed to sendDiscordWebhook is made of at most MaxSendSegs segments
MaxSendSegs == 2
\* largest number of pieces of a prompt file given to the renderer
MaxTplLen == 4
\* largest number of pieces of an input text given to the renderer
MaxRenderTextLen == 2
\* largest number of lines of git status --porcelain given to the bundler
MaxStatusLines == 2
\* largest number of pieces (a character or a fence marker) in a raw model
\* output given to the sanitizer
MaxSanLen == 5

----------------------------------------------------------------------------
\* Values

Running == -1

Missing == << "<missing>" >>
NotWritten == << "<not written>" >>

INPUT_TOKEN == "{{INPUT}}"

EmptyBody == [kind |-> "empty", n_prompt_tokens |-> 0, n_ctx |-> 0, content |-> << >>]

CtxBody(a, c) ==
  [kind |-> "exceed_context_size_error", n_prompt_tokens |-> a, n_ctx |-> c,
   content |-> << >>]

OtherErrorBody ==
  [kind |-> "other_error", n_prompt_tokens |-> 0, n_ctx |-> 0, content |-> << >>]

OkBody(text) ==
  [kind |-> "completion", n_prompt_tokens |-> 0, n_ctx |-> 0, content |-> text]

Line(text, http, b, chars) == [text |-> text, http |-> http, body |-> b, chars |-> chars]

Say(text) == Line(text, "", EmptyBody, << >>)

----------------------------------------------------------------------------
\* Text helpers

Chars(str) ==
  CASE str = "truncated " -> << "t", "r", "u", "n", "c", "a", "t", "e", "d", " " >>
    [] str = " chars)" -> << " ", "c", "h", "a", "r", "s", ")" >>
    [] str = "\n\n... (" -> << "\n", "\n", ".", ".", ".", " ", "(" >>

Digits == << "0", "1", "2", "3", "4", "5", "6", "7", "8", "9" >>

\* Op applied to the value of arg. An operator's argument is otherwise
\* evaluated at every place the operator uses it.
Once(Op(_), arg) == CHOOSE r \in { Op(v) : v \in {arg} } : TRUE

\* printf '%s' of a non-negative integer: its decimal digits
RECURSIVE Decimal(_)
Decimal(n) ==
  IF n < 10 THEN << Digits[n + 1] >>
  ELSE Once(Decimal, n \div 10) \o << Digits[(n % 10) + 1] >>

IsSpace(ch) == ch \in {" ", "\t", "\n", "\r", "\f"}

\* [A-Za-z], as far as the texts of the model use it
IsLetter(ch) ==
  ch \in {"a", "b", "c", "d", "e", "f", "g", "h", "i", "j", "k", "l", "m", "n",
          "o", "p", "q", "r", "s", "t", "u", "v", "w", "x", "y", "z"}

\* s without its last character
Front(s) == SubSeq(s, 1, Len(s) - 1)

\* a command substitution drops every trailing newline
RECURSIVE StripTrailingNewlines(_)
StripTrailingNewlines(s) ==
  IF s # << >> /\ s[Len(s)] = "\n"
  THEN Once(StripTrailingNewlines, Front(s))
  ELSE s

\* the lines a line-oriented tool reads from s (terminators removed)
RECURSIVE SplitLines(_)
SplitLines(s) ==
  IF s = << >> THEN << >>
  ELSE LET nl == { i \in 1..Len(s) : s[i] = "\n" }
           first == CHOOSE k \in nl : \A j \in nl : k <= j
           rest(i) == << SubSeq(s, 1, i - 1) >>
                        \o Once(SplitLines, SubSeq(s, i + 1, Len(s)))
       IN  IF nl = {} THEN << s >> ELSE Once(rest, first)

\* the lines written back, each with its newline
RECURSIVE JoinLines(_)
JoinLines(ls) ==
  IF ls = << >> THEN << >>
  ELSE Head(ls) \o << "\n" >> \o Once(JoinLines, Tail(ls))

RECURSIVE DropLeadingSpace(_)
DropLeadingSpace(s) ==
  IF s # << >> /\ IsSpace(Head(s)) THEN Once(DropLeadingSpace, Tail(s)) ELSE s

RECURSIVE DropTrailingSpace(_)
DropTrailingSpace(s) ==
  IF s # << >> /\ IsSpace(s[Len(s)])
  THEN Once(DropTrailingSpace, Front(s))
  ELSE s

\* ${text//$'\r\n'/$'\n'}
RECURSIVE ReplaceCrLf(_)
ReplaceCrLf(s) ==
  IF Len(s) < 2 THEN s
  ELSE IF s[1] = "\r" /\ s[2] = "\n"
       THEN << "\n" >> \o Once(ReplaceCrLf, SubSeq(s, 3, Len(s)))
       ELSE << s[1] >> \o Once(ReplaceCrLf, Tail(s))

----------------------------------------------------------------------------
\* truncate (the marker and the cut)

\* printf '\n\n... (truncated %s chars)' "$remain"
TruncationMarker(remain) ==
  Chars("\n\n... (") \o Chars("truncated ") \o Decimal(remain) \o Chars(" chars)")

truncate_off_by_one(text, max) ==
  LET len == Len(text)
  IN  IF len <= max THEN text
      ELSE SubSeq(text, 1, max) \o TruncationMarker(len - max - 1)

truncate_marks_at_limit(text, max) ==
  LET len == Len(text)
  IN  IF len < max THEN text
      ELSE SubSeq(text, 1, max) \o TruncationMarker(len - max)

truncate(text, max) ==
  LET len == Len(text)
  IN  IF len <= max THEN text
      ELSE LET remain == len - max
           IN  SubSeq(text, 1, max) \o TruncationMarker(remain)

----------------------------------------------------------------------------
\* The shrink computation of the failure handler

\* the floor applied to new_max
FloorChars == 2000

\* the clamped ratio r as a fraction << numerator, denominator >>
clamped_ratio(a, c) ==
  IF 17 * c > 19 * a THEN << 19, 20 >>
  ELSE IF 17 * c < 4 * a THEN << 1, 5 >>
  ELSE << 17 * c, 20 * a >>

awk_new_max_without_margin(m, a, c) ==
  IF c > a THEN { (19 * m) \div 20 }
  ELSE IF 5 * c < a THEN { m \div 5 }
  ELSE { (c * m) \div a }

\* awk: r = (c / a) * 0.85; clamp to [0.20, 0.95]; printf("%d", m * r).
\* 0.85 * c / a = 17c / 20a, 0.95 = 19/20, 0.20 = 1/5. awk computes in
\* doubles. With r clamped, %d prints the exact floor. With r unclamped, it
\* prints the exact floor where the exact product is not an integer; where
\* it is an integer the double may fall just below it and %d then prints
\* one less, so both outcomes are kept.
awk_new_max(m, a, c) ==
  IF 17 * c > 19 * a THEN { (19 * m) \div 20 }
  ELSE IF 17 * c < 4 * a THEN { m \div 5 }
  ELSE LET num == 17 * c * m
           den == 20 * a
           q == num \div den
       IN  IF num % den = 0 /\ q > 0 THEN {q, q - 1} ELSE {q}


raise_to_floor_missing(n) == n

\* if [ "$new_max" -lt 2000 ]; then new_max=2000; fi
raise_to_floor(n) == IF n < FloorChars THEN FloorChars ELSE n

\* the values new_max can take for cur_max = m, n_prompt = a, n_ctx = c
new_max_of(m, a, c) == { raise_to_floor(n) : n \in awk_new_max(m, a, c) }


----------------------------------------------------------------------------
\* Reading the prompt templates

InvalidByte == "<invalid byte>"

\* iconv -f UTF-8 -t UTF-8//IGNORE: invalid byte sequences are dropped
normalize_utf8(s) == SelectSeq(s, LAMBDA ch : ch # InvalidByte)

\* s cut at every newline, the text after the last newline included
Pieces(s) ==
  IF s = << >> \/ s[Len(s)] = "\n"
  THEN Once(SplitLines, s) \o << << >> >>
  ELSE Once(SplitLines, s)

RECURSIVE JoinPieces(_)
JoinPieces(ps) ==
  IF Len(ps) = 1 THEN Head(ps)
  ELSE Head(ps) \o << "\n" >> \o Once(JoinPieces, Tail(ps))

RECURSIVE DropTrailingBlanks(_)
DropTrailingBlanks(s) ==
  IF s # << >> /\ s[Len(s)] \in {" ", "\t"}
  THEN Once(DropTrailingBlanks, Front(s))
  ELSE s

\* s/\r$//mg then s/[ \t]+$//mg, on one line
TrimLineEnd(l) ==
  Once(DropTrailingBlanks, IF l # << >> /\ l[Len(l)] = "\r" THEN Front(l) ELSE l)

RECURSIVE DropLeadingNewlines(_)
DropLeadingNewlines(s) ==
  IF s # << >> /\ Head(s) = "\n" THEN Once(DropLeadingNewlines, Tail(s)) ELSE s

\* s/\n{3,}/\n\n/g
RECURSIVE CollapseNewlines(_)
CollapseNewlines(s) ==
  IF Len(s) >= 3 /\ s[1] = "\n" /\ s[2] = "\n" /\ s[3] = "\n"
  THEN << "\n", "\n" >> \o Once(CollapseNewlines, Once(DropLeadingNewlines, s))
  ELSE IF s = << >> THEN s
  ELSE << Head(s) >> \o Once(CollapseNewlines, Tail(s))

\* the perl clean-up on the pieces of the file
TrimPieces(ps) == Once(JoinPieces, [i \in 1..Len(ps) |-> TrimLineEnd(ps[i])])

\* "$(read_file_trim "$p" || true)": empty for a missing file, else the
\* content cleaned by perl, its trailing newlines dropped by the substitution
read_file_trim(file) ==
  IF file = Missing THEN << >>
  ELSE Once(StripTrailingNewlines,
         Once(DropLeadingNewlines,
           Once(CollapseNewlines,
             Once(TrimPieces, Once(Pieces, Once(normalize_utf8, file))))))

----------------------------------------------------------------------------
\* apply_template_input

\* a second pass over the result, which finds the tokens of the input
Substitute_rescanned(tpl, text) ==
  LET piece(e) == IF e = INPUT_TOKEN
                  THEN SelectSeq(text, LAMBDA ch : ch # INPUT_TOKEN)
                  ELSE << e >>
      RECURSIVE Concat(_)
      Concat(es) == IF es = << >> THEN << >>
                    ELSE piece(Head(es)) \o Once(Concat, Tail(es))
  IN  Concat(tpl)

\* gsub of every {{INPUT}} by $input, in one pass over the template
Substitute(tpl, text) ==
  LET piece(e) == IF e = INPUT_TOKEN THEN text ELSE << e >>
      RECURSIVE Concat(_)
      Concat(es) == IF es = << >> THEN << >>
                    ELSE piece(Head(es)) \o Once(Concat, Tail(es))
  IN  Concat(tpl)

\* "$(apply_template_input "$tpl" "$input")"
apply_template_input(tpl, text) == Once(StripTrailingNewlines, Substitute(tpl, text))

----------------------------------------------------------------------------
\* sanitize_commit_message

TrimLine(l) == Once(DropTrailingSpace, Once(DropLeadingSpace, l))

TrimLines(ls) == Once(JoinLines, [i \in 1..Len(ls) |-> TrimLine(ls[i])])

\* "$(printf '%s' "$text" | sed -e 's/^[[:space:]]\+//' -e 's/[[:space:]]\+$//')"
TrimEachLine(s) == Once(StripTrailingNewlines, Once(TrimLines, Once(SplitLines, s)))

\* the backquote character
Backtick == "<backquote>"

IsFence(l) == Len(l) >= 3 /\ l[1] = Backtick /\ l[2] = Backtick /\ l[3] = Backtick

\* a fence, then [[:space:]]* up to the end of the line
IsClosingFence(l) ==
  IsFence(l) /\ \A i \in 4..Len(l) : IsSpace(l[i])

\* a fence, then [A-Za-z]*[[:space:]]* up to the end of the line
IsOpeningFence(l) ==
  IsFence(l) /\ \E k \in 3..Len(l) :
                  /\ \A i \in 4..k : IsLetter(l[i])
                  /\ \A i \in (k + 1)..Len(l) : IsSpace(l[i])

\* sed: an opening fence on line 1 and a closing fence on the last line
\* are replaced by the empty line
EditFenceLines(ls) ==
  LET first(i) == IF i = 1 /\ IsOpeningFence(ls[i]) THEN << >> ELSE ls[i]
      last(i, l) == IF i = Len(ls) /\ IsClosingFence(l) THEN << >> ELSE l
      edit(i) == CHOOSE r \in { last(i, l) : l \in { first(i) } } : TRUE
  IN  Once(JoinLines, [i \in 1..Len(ls) |-> edit(i)])

StripFenceLines(s) == Once(EditFenceLines, Once(SplitLines, s))

\* head -n 1 | grep -q: the first line starts with a fence
StartsWithFence(ls) == ls # << >> /\ IsFence(Head(ls))

\* printf '%s' "$text" | head -n 1 | grep -q ... under pipefail: printf writes
\* line by line, so when the text has a second line head may have exited
\* before that write, printf dies of SIGPIPE and the test is false although
\* the first line is a fence
FenceSeenValues(ls) ==
  IF StartsWithFence(ls) THEN (IF Len(ls) >= 2 THEN BOOLEAN ELSE {TRUE}) ELSE {FALSE}

Unfenced(s, seen) ==
  IF seen THEN Once(TrimEachLine, Once(StripFenceLines, s)) ELSE s

IsQuoted(s, q) == s # << >> /\ s[1] = q /\ s[Len(s)] = q

\* the text the fence test reads
sanitize_trimmed(text) == Once(TrimEachLine, Once(ReplaceCrLf, text))

\* the outcomes of the fence test on this text
SeenValues(text) == Once(FenceSeenValues, Once(SplitLines, sanitize_trimmed(text)))

\* the text before the quote stripping
sanitize_before_quotes(text, seen) ==
  CHOOSE r \in { Unfenced(t, seen) : t \in { sanitize_trimmed(text) } } : TRUE

\* ${text:1:${#text}-2} of a one-character text: "substring expression < 0"
FailsOnQuotes(t) == Len(t) = 1 /\ (IsQuoted(t, "\"") \/ IsQuoted(t, "'"))

sanitize_fails(text, seen) == Once(FailsOnQuotes, sanitize_before_quotes(text, seen))

StripQuotes_any_ends(t) ==
  IF FailsOnQuotes(t) THEN << >>
  ELSE IF Len(t) >= 2 THEN SubSeq(t, 2, Len(t) - 1)
  ELSE t

StripQuotes(t) ==
  IF FailsOnQuotes(t) THEN << >>
  ELSE IF IsQuoted(t, "\"") \/ IsQuoted(t, "'") THEN SubSeq(t, 2, Len(t) - 1)
  ELSE t

sanitize_commit_message(text, seen) ==
  Once(StripQuotes, sanitize_before_quotes(text, seen))

----------------------------------------------------------------------------
\* parse_exceed_ctx

\* "n_prompt_tokens n_ctx" as a pair, or << >> for the empty output
parse_exceed_ctx(b) ==
  IF b.kind = "exceed_context_size_error" THEN << b.n_prompt_tokens, b.n_ctx >> ELSE << >>


----------------------------------------------------------------------------
\* The inputs of one invocation

\* MAX_CHARS="${LLM_DIFF_MAX_CHARS:-12000}"
DefaultMaxChars == 12000

\* MAX_RETRIES="${LLM_MAX_RETRIES:-3}"
DefaultMaxRetries == 3

\* a configured maximum below the floor
BelowFloorChars == FloorChars \div 2

MaxCharsValues == (0..MaxSmallChars) \cup {BelowFloorChars, FloorChars, DefaultMaxChars}

MaxRetriesValues == 0..MaxRetriesBound

HealthValues ==
  { [code |-> "200", loading |-> FALSE], [code |-> "200", loading |-> TRUE],
    [code |-> "503", loading |-> FALSE], [code |-> "000", loading |-> FALSE] }

SystemTemplate == << "s", "\n" >>

UserTemplate == << "u", " ", "\n", INPUT_TOKEN, "\r", "\n", "\n" >>

BlankFiles == { << >>, << " ", "\n", "\t", "\n" >>, << InvalidByte >> }

SystemFileValues == {Missing, SystemTemplate} \cup BlankFiles

UserFileValues == {Missing, UserTemplate} \cup BlankFiles

BundleChars == {"a", "b"}

TextsUpTo(n) == UNION { [1..k -> BundleChars] : k \in 0..n }

\* the bundle always holds its section headers, so it is never empty
BundleValues == TextsUpTo(MaxBundleLen) \ { << >> }

ScenarioPromptTokens == 4742

ScenarioCtx == 2048

TokenValues == {0, ScenarioCtx, ScenarioPromptTokens}

FencedContent ==
  << Backtick, Backtick, Backtick, "\n", "f", "\n", Backtick, Backtick, Backtick >>

ContentValues == { << >>, << " ", "\n" >>, << "f", "\n" >>, << "\"" >>, FencedContent }

Response(code, b) == [code |-> code, body |-> b]

\* what the server (or curl, for "000") answers to one POST
ResponseValues ==
  { Response("200", OkBody(t)) : t \in ContentValues }
    \cup { Response("000", EmptyBody), Response("500", OtherErrorBody),
           Response("400", OtherErrorBody) }
    \cup { Response("400", CtxBody(a, c)) : a \in TokenValues, c \in TokenValues }

NoCall == [fn |-> "none"]

----------------------------------------------------------------------------
\* The script

Init ==
  /\ MAX_CHARS \in MaxCharsValues
  /\ MAX_RETRIES \in MaxRetriesValues
  /\ SHOW_DIFF \in BOOLEAN
  /\ OUT_FILE \in BOOLEAN
  /\ health \in HealthValues
  /\ staged \in BOOLEAN
  /\ system_file \in SystemFileValues
  /\ user_file \in UserFileValues
  /\ pc = "check_health"
  /\ bundle = << >>
  /\ system_tpl = << >>
  /\ user_tpl = << >>
  /\ attempt = 0
  /\ cur_max = 0
  /\ input = << >>
  /\ user_prompt = << >>
  /\ raw = << >>
  /\ msg = << >>
  /\ http_code = ""
  /\ body = EmptyBody
  /\ LLM_ERR_HTTP = ""
  /\ LLM_ERR_BODY = EmptyBody
  /\ tmp_files = {}
  /\ posts = << >>
  /\ bundler_calls = 0
  /\ stdout = << >>
  /\ stderr = << >>
  /\ out_file = NotWritten
  /\ exit_code = Running
  /\ call = NoCall

config_vars ==
  << MAX_CHARS, MAX_RETRIES, SHOW_DIFF, OUT_FILE, health, staged, system_file, user_file >>

\* exit <status>, after the given lines were written
Exit(status, out, err) ==
  /\ pc' = "exited"
  /\ exit_code' = status
  /\ stdout' = stdout \o out
  /\ stderr' = stderr \o err

check_health_skipped == TRUE

\* check_health: curl --max-time 3 .../health, only the status code is read
check_health == health.code = "200"

CheckHealth ==
  /\ pc = "check_health"
  /\ IF check_health
     THEN /\ pc' = "check_staged"
          /\ UNCHANGED << exit_code, stdout, stderr >>
     ELSE Exit(1, << Say("ERROR: LLM server is not reachable."),
                     Say("TIP: Start it first: llm up") >>, << >>)
  /\ UNCHANGED << config_vars, tmp_files, bundle, system_tpl, user_tpl, attempt, cur_max, input,
                  user_prompt, raw, msg, http_code, body, LLM_ERR_HTTP, LLM_ERR_BODY,
                  posts, bundler_calls, out_file, call >>

\* if git diff --staged --quiet; then ... exit 1
CheckStaged ==
  /\ pc = "check_staged"
  /\ IF staged
     THEN /\ pc' = "build_bundle"
          /\ UNCHANGED << exit_code, stdout, stderr >>
     ELSE Exit(1, << Say("ERROR: No staged changes. (staged-only mode)"),
                     Say("TIP: stage files first: git add -A") >>, << >>)
  /\ UNCHANGED << config_vars, tmp_files, bundle, system_tpl, user_tpl, attempt, cur_max, input,
                  user_prompt, raw, msg, http_code, body, LLM_ERR_HTTP, LLM_ERR_BODY,
                  posts, bundler_calls, out_file, call >>

IsBlank(s) == \A i \in 1..Len(s) : IsSpace(s[i])

\* print_diff_debug
DiffDebug(b) ==
  << Say("===== DIFF (SENT TO LLM) ====="),
     Line("<clipped>", "", EmptyBody, truncate(b, MAX_CHARS)),
     Say("==============================") >>

\* bundle="$(build_diff_bundle)", the empty-bundle exit and --show-diff
BuildBundle ==
  /\ pc = "build_bundle"
  /\ \E b \in BundleValues :
       /\ bundle' = Once(StripTrailingNewlines, b)
       /\ bundler_calls' = bundler_calls + 1
       /\ IF IsBlank(bundle')
          THEN Exit(0, << Say("INFO: No changes found.") >>, << >>)
          ELSE /\ pc' = "read_templates"
               /\ stdout' = stdout \o (IF SHOW_DIFF THEN DiffDebug(bundle') ELSE << >>)
               /\ UNCHANGED << exit_code, stderr >>
  /\ UNCHANGED << config_vars, tmp_files, system_tpl, user_tpl, attempt, cur_max, input,
                  user_prompt, raw, msg, http_code, body, LLM_ERR_HTTP, LLM_ERR_BODY,
                  posts, out_file, call >>

initial_cur_max_default(max_chars) == DefaultMaxChars

\* cur_max="$MAX_CHARS"
initial_cur_max(max_chars) == max_chars

\* the two read_file_trim calls, the two emptiness checks, and
\* attempt=1; cur_max="$MAX_CHARS"
ReadTemplates ==
  /\ pc = "read_templates"
  /\ system_tpl' = read_file_trim(system_file)
  /\ user_tpl' = read_file_trim(user_file)
  /\ IF system_tpl' = << >>
     THEN /\ Exit(1, << Say("ERROR: Cannot read system prompt") >>, << >>)
          /\ UNCHANGED << attempt, cur_max >>
     ELSE IF user_tpl' = << >>
     THEN /\ Exit(1, << Say("ERROR: Cannot read user prompt") >>, << >>)
          /\ UNCHANGED << attempt, cur_max >>
     ELSE /\ pc' = "loop"
          /\ attempt' = 1
          /\ cur_max' = initial_cur_max(MAX_CHARS)
          /\ UNCHANGED << exit_code, stdout, stderr >>
  /\ UNCHANGED << config_vars, tmp_files, bundle, input, user_prompt, raw, msg, http_code, body,
                  LLM_ERR_HTTP, LLM_ERR_BODY, posts, bundler_calls, out_file, call >>

loop_guard_one_more == attempt <= MAX_RETRIES + 1

\* while [ "$attempt" -le "$MAX_RETRIES" ]
loop_guard == attempt <= MAX_RETRIES

LoopGuard ==
  /\ pc = "loop"
  /\ pc' = IF loop_guard THEN "attempt" ELSE "after_loop"
  /\ UNCHANGED << config_vars, tmp_files, bundle, system_tpl, user_tpl, attempt, cur_max, input,
                  user_prompt, raw, msg, http_code, body, LLM_ERR_HTTP, LLM_ERR_BODY,
                  posts, bundler_calls, stdout, stderr, out_file, exit_code, call >>

call_llm_diagnostic_without_body(code, b) ==
  << Line("ERROR: LLM request failed (HTTP)", code, EmptyBody, << >>) >>

\* what call_llm writes to stderr for a status other than 200
call_llm_diagnostic(code, b) ==
  << Line("ERROR: LLM request failed (HTTP)", code, b, << >>) >>
    \o (IF code = "000"
        THEN << Say("----- CURL ERROR (network/connection) -----"),
                Say("TIP: check server: curl -sS /health") >>
        ELSE << >>)

\* the globals after call_llm has run in its command substitution: call_llm
\* assigns only its locals http_code and body, so they keep their values
LLM_ERR_HTTP_after_call(code) == LLM_ERR_HTTP

LLM_ERR_BODY_after_call(b) == LLM_ERR_BODY

\* tmp_json, tmp_utf8, tmp_body, tmp_err of call_llm
TempFiles == {"tmp_json", "tmp_utf8", "tmp_body", "tmp_err"}

\* the loop body up to the start of curl: truncate, render, the four mktemp,
\* the payload files, and the POST goes out
Attempt ==
  /\ pc = "attempt"
  /\ input' = Once(StripTrailingNewlines, truncate(bundle, cur_max))
  /\ user_prompt' = apply_template_input(user_tpl, input')
  /\ posts' = Append(posts, << cur_max, input' >>)
  /\ tmp_files' = tmp_files \cup TempFiles
  /\ pc' = "in_flight"
  /\ UNCHANGED << config_vars, bundle, system_tpl, user_tpl, attempt, cur_max, raw, msg,
                  http_code, body, LLM_ERR_HTTP, LLM_ERR_BODY, bundler_calls, stdout,
                  stderr, out_file, exit_code, call >>

\* rm -f "$tmp_json" "$tmp_utf8" "$tmp_body" after curl, rm -f "$tmp_err"
\* before either return
files_after_call == tmp_files \ TempFiles

\* curl returns: the rest of call_llm, and on 200
\* msg="$(sanitize_commit_message "$raw")" and the break
CurlReturns ==
  /\ pc = "in_flight"
  /\ \E resp \in ResponseValues :
       /\ http_code' = resp.code
       /\ body' = resp.body
       /\ LLM_ERR_HTTP' = LLM_ERR_HTTP_after_call(resp.code)
       /\ LLM_ERR_BODY' = LLM_ERR_BODY_after_call(resp.body)
       /\ tmp_files' = files_after_call
       /\ IF resp.code = "200"
          THEN /\ raw' = Once(StripTrailingNewlines, resp.body.content)
               /\ \E seen \in SeenValues(raw') :
                    IF sanitize_fails(raw', seen)
                    THEN /\ Exit(1, << >>, << Say("substring expression < 0") >>)
                         /\ UNCHANGED msg
                    ELSE /\ msg' = Once(StripTrailingNewlines,
                                        sanitize_commit_message(raw', seen))
                         /\ pc' = "after_loop"
                         /\ UNCHANGED << exit_code, stdout, stderr >>
          ELSE /\ raw' = << >>
               /\ pc' = "failure"
               /\ stderr' = stderr \o call_llm_diagnostic(resp.code, resp.body)
               /\ UNCHANGED << msg, exit_code, stdout >>
  /\ UNCHANGED << config_vars, bundle, system_tpl, user_tpl, attempt, cur_max, input,
                  user_prompt, posts, bundler_calls, out_file, call >>

\* exit statuses of a script killed by SIGINT and by SIGTERM
InterruptStatusValues == {130, 143}

\* a signal ends the script while curl is running: there is no trap, so
\* nothing more of the script is run
Interrupt ==
  /\ pc = "in_flight"
  /\ \E status \in InterruptStatusValues : Exit(status, << >>, << >>)
  /\ UNCHANGED << config_vars, tmp_files, bundle, system_tpl, user_tpl, attempt, cur_max,
                  input, user_prompt, raw, msg, http_code, body, LLM_ERR_HTTP,
                  LLM_ERR_BODY, posts, bundler_calls, out_file, call >>

\* the retry condition of the failure handler, on what it reads
is_ctx_retry(http, b) ==
  /\ http = "400"
  /\ parse_exceed_ctx(b) # << >>
  /\ parse_exceed_ctx(b)[1] > 0
  /\ parse_exceed_ctx(b)[2] > 0

\* the rest of the loop body: the failure handler
HandleFailure ==
  /\ pc = "failure"
  /\ LET http == LLM_ERR_HTTP
         b == LLM_ERR_BODY
     IN  IF is_ctx_retry(http, b)
         THEN \E new_max \in new_max_of(cur_max, parse_exceed_ctx(b)[1],
                                        parse_exceed_ctx(b)[2]) :
                /\ stdout' = stdout \o
                     << Line("LLM context exceeded. Retrying with smaller diff...",
                             "", b, << >>) >>
                /\ cur_max' = new_max
                /\ attempt' = attempt + 1
                /\ pc' = "loop"
                /\ UNCHANGED << exit_code, stderr >>
         ELSE /\ Exit(1, << >>,
                      << Line("ERROR: LLM request failed (HTTP)",
                              IF http = "" THEN "unknown" ELSE http, b, << >>) >>)
              /\ UNCHANGED << attempt, cur_max >>
  /\ UNCHANGED << config_vars, tmp_files, bundle, system_tpl, user_tpl, input, user_prompt, raw,
                  msg, http_code, body, LLM_ERR_HTTP, LLM_ERR_BODY, posts,
                  bundler_calls, out_file, call >>

EmptyResultDiagnostic ==
  << Say("ERROR: Empty response from LLM (or retries exhausted)."),
     Say("TIP: increase ctx on the server OR reduce diff via LLM_DIFF_MAX_CHARS") >>

written_file_before_check(m, to_file, cur) ==
  IF to_file THEN m \o << "\n" >> ELSE cur

\* the --out file after the empty check and
\* if [ -n "$OUT_FILE" ]; then printf '%s\n' "$msg" > "$OUT_FILE"; fi
written_file(m, to_file, cur) ==
  IF m # << >> /\ to_file THEN m \o << "\n" >> ELSE cur

\* after the loop: the empty check, the --out file and the banner
AfterLoop ==
  /\ pc = "after_loop"
  /\ out_file' = written_file(msg, OUT_FILE, out_file)
  /\ IF msg = << >>
     THEN Exit(1, EmptyResultDiagnostic, << >>)
     ELSE /\ TRUE
          /\ Exit(0, << Say("===== COMMIT MESSAGE ====="),
                        Line("<message>", "", EmptyBody, msg),
                        Say("==========================") >>, << >>)
  /\ UNCHANGED << config_vars, tmp_files, bundle, system_tpl, user_tpl, attempt, cur_max, input,
                  user_prompt, raw, msg, http_code, body, LLM_ERR_HTTP, LLM_ERR_BODY,
                  posts, bundler_calls, call >>

Next ==
  \/ CheckHealth
  \/ CheckStaged
  \/ BuildBundle
  \/ ReadTemplates
  \/ LoopGuard
  \/ Attempt
  \/ CurlReturns
  \/ Interrupt
  \/ HandleFailure
  \/ AfterLoop

Spec == Init /\ [][Next]_vars

\* the script runs to its end: a step that can be taken is taken. For the
\* POST this takes curl to return, with a response or with a transport error.
FairSpec == Spec /\ WF_vars(Next)


----------------------------------------------------------------------------
\* The pure functions applied to drawn inputs

\* the script is not running: no step of it is enabled
ScriptIdle ==
  /\ MAX_CHARS = DefaultMaxChars
  /\ MAX_RETRIES = DefaultMaxRetries
  /\ SHOW_DIFF = FALSE
  /\ OUT_FILE = FALSE
  /\ health = [code |-> "200", loading |-> FALSE]
  /\ staged = FALSE
  /\ system_file = Missing
  /\ user_file = Missing
  /\ pc = "idle"
  /\ bundle = << >>
  /\ system_tpl = << >>
  /\ user_tpl = << >>
  /\ attempt = 0
  /\ cur_max = 0
  /\ input = << >>
  /\ user_prompt = << >>
  /\ raw = << >>
  /\ msg = << >>
  /\ http_code = ""
  /\ body = EmptyBody
  /\ LLM_ERR_HTTP = ""
  /\ LLM_ERR_BODY = EmptyBody
  /\ tmp_files = {}
  /\ posts = << >>
  /\ bundler_calls = 0
  /\ stdout = << >>
  /\ stderr = << >>
  /\ out_file = NotWritten
  /\ exit_code = Running

\* a text of n characters, each position told from its neighbours
Ramp(n) == [i \in 1..n |-> Digits[(i % 10) + 1]]

TextValues == TextsUpTo(MaxBundleLen) \cup { Ramp(n) : n \in 0..MaxLen }

InitTruncate ==
  /\ ScriptIdle
  /\ \E t \in TextValues, m \in 0..(MaxLen + 1) :
       call = [fn |-> "truncate", text |-> t, max |-> m, out |-> << >>, done |-> FALSE]

ApplyTruncate ==
  /\ call.fn = "truncate"
  /\ ~call.done
  /\ call' = [call EXCEPT !.out = truncate(call.text, call.max), !.done = TRUE]
  /\ UNCHANGED pipeline_vars

SpecTruncate == InitTruncate /\ [][ApplyTruncate]_vars

CurMaxValues ==
  ((FloorChars - Spread)..(FloorChars + Spread))
    \cup {0, 1, BelowFloorChars, DefaultMaxChars}

PromptTokenValues == (1..MaxTok) \cup {ScenarioPromptTokens}

CtxValues == (0..MaxTok) \cup {ScenarioCtx}

InitShrink ==
  /\ ScriptIdle
  /\ \E m \in CurMaxValues, a \in PromptTokenValues, c \in CtxValues :
       call = [fn |-> "new_max", m |-> m, a |-> a, c |-> c, out |-> 0, done |-> FALSE]

ApplyShrink ==
  /\ call.fn = "new_max"
  /\ ~call.done
  /\ \E n \in new_max_of(call.m, call.a, call.c) :
       call' = [call EXCEPT !.out = n, !.done = TRUE]
  /\ UNCHANGED pipeline_vars

SpecShrink == InitShrink /\ [][ApplyShrink]_vars

Fence == << Backtick, Backtick, Backtick >>

SanitizePieces == { << "a" >>, << " " >>, << "\n" >>, << "\"" >>, Fence }

RECURSIVE Flatten(_)
Flatten(ps) == IF ps = << >> THEN << >> ELSE Head(ps) \o Once(Flatten, Tail(ps))

\* fence, language tag, newline, content, newline, fence
FencedBlock(lang, inner) == Fence \o lang \o << "\n" >> \o inner \o << "\n" >> \o Fence

ScenarioDMessage == << "f", "e", "a", "t", ":", " ", "a", "d", "d", " ", "x" >>

\* raw outputs with CRLF line ends, single quotes, tabs and the fenced block
\* of Scenario D
SanitizeExtraValues ==
  { << "a", "\r", "\n", "b", "\r", "\n" >>, << "'", "a", "'" >>, << "'" >>,
    << "\t", "a", "\t" >>, << "'", "\"", "a", "\"", "'" >>,
    Fence \o << "\r", "\n", "a", "\r", "\n" >> \o Fence \o << "\r", "\n" >>,
    FencedBlock(<< >>, ScenarioDMessage), FencedBlock(<< "s", "h" >>, ScenarioDMessage) }

SanitizeValues ==
  { Flatten(ps) : ps \in UNION { [1..k -> SanitizePieces] : k \in 0..MaxSanLen } }
    \cup SanitizeExtraValues

InitSanitize ==
  /\ ScriptIdle
  /\ \E t \in SanitizeValues :
       call = [fn |-> "sanitize", text |-> t, once |-> << >>, twice |-> << >>,
               failed |-> FALSE, passes |-> 0]

\* sanitize_commit_message "$x"
SanitizeOnce ==
  /\ call.fn = "sanitize"
  /\ call.passes = 0
  /\ \E seen \in SeenValues(call.text) :
       call' = IF sanitize_fails(call.text, seen)
               THEN [call EXCEPT !.failed = TRUE, !.passes = 1]
               ELSE [call EXCEPT !.once = sanitize_commit_message(call.text, seen),
                                 !.passes = 1]
  /\ UNCHANGED pipeline_vars

\* sanitize_commit_message on the text the first pass printed
SanitizeAgain ==
  /\ call.fn = "sanitize"
  /\ call.passes = 1
  /\ ~call.failed
  /\ \E seen \in SeenValues(call.once) :
       call' = IF sanitize_fails(call.once, seen)
               THEN [call EXCEPT !.failed = TRUE, !.passes = 2]
               ELSE [call EXCEPT !.twice = sanitize_commit_message(call.once, seen),
                                 !.passes = 2]
  /\ UNCHANGED pipeline_vars

NextSanitize == SanitizeOnce \/ SanitizeAgain

SpecSanitize == InitSanitize /\ [][NextSanitize]_vars


----------------------------------------------------------------------------
\* The renderer applied to drawn templates and inputs

RenderPieces == {"u", "\n", INPUT_TOKEN}

\* the prompt files as read_file_trim returns them, the empty ones left
\* out: the script exits on an empty template
TemplateValues ==
  { read_file_trim(f) : f \in UNION { [1..k -> RenderPieces] : k \in 1..MaxTplLen } }
    \ { << >> }

\* "$(truncate "$bundle" "$cur_max")": not empty, no newline at the end
RenderTextValues ==
  { Once(StripTrailingNewlines, t) :
      t \in UNION { [1..k -> {"a", "\n", INPUT_TOKEN}] : k \in 1..MaxRenderTextLen } }
    \ { << >> }

InitRender ==
  /\ ScriptIdle
  /\ \E tpl \in TemplateValues, t \in RenderTextValues :
       call = [fn |-> "render", tpl |-> tpl, text |-> t, out |-> << >>, done |-> FALSE]

\* user_prompt="$(apply_template_input "$user_tpl" "$input")"
ApplyRender ==
  /\ call.fn = "render"
  /\ ~call.done
  /\ call' = [call EXCEPT !.out = apply_template_input(call.tpl, call.text),
                          !.done = TRUE]
  /\ UNCHANGED pipeline_vars

SpecRender == InitRender /\ [][ApplyRender]_vars

----------------------------------------------------------------------------
\* build_diff_bundle

HeaderOverview == "### CHANGE OVERVIEW"

HeaderStat == "## git diff --staged --stat"

HeaderStatus == "## git status --porcelain"

HeaderDiff == "### DIFF (STAGED ONLY)"

HeaderUntracked == "### UNTRACKED FILES (paths only)"

Placeholder == "(empty)"

or_placeholder_omitted(t) == t

\* ${x:-"(empty)"} in the here-document
or_placeholder(t) == IF t = << >> THEN << Placeholder >> ELSE t

\* a line of git status --porcelain that sed -n 's/^[?][?][[:space:]]\+//p' prints
IsUntrackedLine(l) == Len(l) >= 3 /\ l[1] = "?" /\ l[2] = "?" /\ IsSpace(l[3])

\* the path of such a line: the prefix and the trailing blanks removed
UntrackedPath(l) == Once(DropTrailingSpace, Once(DropLeadingSpace, SubSeq(l, 3, Len(l))))

\* sed 's|\\|/|g'
SlashPath(t) == [i \in 1..Len(t) |-> IF t[i] = "\\" THEN "/" ELSE t[i]]

\* get_untracked_files, on the output of git status --porcelain
get_untracked_files(porcelain) ==
  LET ls == Once(SplitLines, porcelain)
      kept == SelectSeq(ls, LAMBDA l : IsUntrackedLine(l) /\ UntrackedPath(l) # << >>)
      raw_list == Once(StripTrailingNewlines,
                       Once(JoinLines, [i \in 1..Len(kept) |-> UntrackedPath(kept[i])]))
  IN  IF porcelain = << >> \/ raw_list = << >> THEN << >>
      ELSE SlashPath(raw_list) \o << "\n" >>

\* format_untracked_section "$files_text"
format_untracked_section(files_text) ==
  IF files_text = << >> THEN << >>
  ELSE << HeaderUntracked, "\n", "\n" >> \o files_text \o << "\n", "\n" >>

\* header=$(cat <<EOF ... EOF)
bundle_header(stat_staged, status) ==
  Once(StripTrailingNewlines,
       << HeaderOverview, "\n", "\n", HeaderStat, "\n" >> \o or_placeholder(stat_staged)
         \o << "\n", "\n", HeaderStatus, "\n" >> \o or_placeholder(status)
         \o << "\n", "\n" >>)

\* diff_section=$(cat <<EOF ... EOF)
bundle_diff_section(main_diff) ==
  Once(StripTrailingNewlines,
       << HeaderDiff, "\n", "\n" >> \o or_placeholder(main_diff) \o << "\n", "\n" >>)

\* build_diff_bundle, on the outputs of the three git commands
build_diff_bundle(stat_staged, status, main_diff) ==
  LET files_text == Once(StripTrailingNewlines, get_untracked_files(status))
      untracked_section == Once(StripTrailingNewlines, format_untracked_section(files_text))
  IN  Once(normalize_utf8,
           bundle_header(stat_staged, status) \o << "\n" >>
             \o bundle_diff_section(main_diff) \o << "\n" >> \o untracked_section)

StatValues == { << >>, << "s" >> }

PorcelainLineValues ==
  { << "M", " ", " ", "a" >>, << "?", "?", " ", "u" >>,
    << "?", "?", " ", "d", "\\", "u", " " >> }

StatusValues ==
  { Once(StripTrailingNewlines, Once(JoinLines, ls)) :
      ls \in UNION { [1..k -> PorcelainLineValues] : k \in 0..MaxStatusLines } }

DiffValues == { << >>, << "d" >>, << "d", InvalidByte, "\n", "+" >> }

InitBundle ==
  /\ ScriptIdle
  /\ \E st \in StatValues, po \in StatusValues, d \in DiffValues :
       call = [fn |-> "bundle", stat |-> st, status |-> po, diff |-> d,
               out |-> << >>, done |-> FALSE]

\* bundle="$(build_diff_bundle)"
ApplyBundle ==
  /\ call.fn = "bundle"
  /\ ~call.done
  /\ call' = [call EXCEPT
                !.out = Once(StripTrailingNewlines,
                             build_diff_bundle(call.stat, call.status, call.diff)),
                !.done = TRUE]
  /\ UNCHANGED pipeline_vars

SpecBundle == InitBundle /\ [][ApplyBundle]_vars

----------------------------------------------------------------------------
\* wait_health of llm.sh

LoadingModel == "Loading model"

\* bodies of a /health response, as pieces of text
HealthBodyValues ==
  { << >>, << "ok" >>, << LoadingModel >>, << "x", LoadingModel, "y" >> }

\* what GET /health answers; when curl fails it prints nothing
HealthResponseValues ==
  { Response(c, b) : c \in {"200", "503", "404"}, b \in HealthBodyValues }
    \cup { Response("000", << >>) }

\* echo "$out" | grep -q "Loading model"
ContainsLoading(out) == \E i \in 1..Len(out) : out[i] = LoadingModel

\* [ -n "$out" ] && ! echo "$out" | grep -q "Loading model"
wait_health_ready(out) == out # << >> /\ ~ContainsLoading(out)

\* sleep 2
SleepSec == 2

\* curl --max-time 2
CurlMaxTime == 2

InitWaitHealth ==
  /\ ScriptIdle
  /\ \E t \in 0..MaxHealthTimeout :
       call = [fn |-> "wait_health", timeout |-> t, elapsed |-> 0,
               last |-> Response("000", << >>), polls |-> 0, state |-> "waiting"]

\* one pass of the while loop: the probe, the readiness test, the timeout
\* test on the seconds since the start, and the sleep
WaitHealthPoll ==
  /\ call.fn = "wait_health"
  /\ call.state = "waiting"
  /\ \E resp \in HealthResponseValues, d \in 0..CurlMaxTime :
       LET elapsed == call.elapsed + d
           polled == [call EXCEPT !.last = resp, !.polls = call.polls + 1]
       IN  call' = IF wait_health_ready(resp.body)
                   THEN [polled EXCEPT !.state = "ready"]
                   ELSE IF elapsed >= call.timeout
                   THEN [polled EXCEPT !.elapsed = elapsed, !.state = "timed out"]
                   ELSE [polled EXCEPT !.elapsed = elapsed + SleepSec]
  /\ UNCHANGED pipeline_vars

SpecWaitHealth == InitWaitHealth /\ [][WaitHealthPoll]_vars

----------------------------------------------------------------------------
\* The commit flow of commit.mjs (gc)

\* a path is a sequence of pieces: names, "." and "/"
StartsWith(p, pre) == Len(p) >= Len(pre) /\ SubSeq(p, 1, Len(pre)) = pre

EndsWith(p, suf) == Len(p) >= Len(suf) /\ SubSeq(p, Len(p) - Len(suf) + 1, Len(p)) = suf

Contains(p, sub) ==
  \E i \in 1..(Len(p) - Len(sub) + 1) : SubSeq(p, i, i + Len(sub) - 1) = sub

\* the /i flag, on the pieces the paths of the model are made of
LowerPiece(x) == CASE x = "KEY" -> "key" [] x = "PEM" -> "pem" [] OTHER -> x

LowerPath(p) == [i \in 1..Len(p) |-> LowerPiece(p[i])]

ModelExtensions == {"gguf", "bin", "safetensors"}

\* isForbiddenPath: some regular expression of the list matches the path
isForbiddenPath(p) ==
  LET q == LowerPath(p)
  IN  \/ p = << ".env" >>
      \/ StartsWith(p, << ".env", "." >>)
      \/ \E e \in {"pem", "key", "p12", "pfx", "jks", "keystore", "log", "pid", "lcov"} :
           EndsWith(q, << ".", e >>)
      \/ \E n \in {"secrets", "secret", "credentials", "creds"} : StartsWith(q, << n, "." >>)
      \/ \E d \in {"node_modules", "dist", "out", "build", "releases", "dist-electron"} :
           StartsWith(p, << d, "/" >>)
      \/ Contains(q, << ".", "log", "." >>)
      \/ /\ StartsWith(q, << "llm", "/", "models", "/" >>)
         /\ Len(q) >= 7
         /\ \E e \in ModelExtensions : EndsWith(q, << ".", e >>)

\* the paths git diff --cached --name-only can list
PathValues ==
  { << ".env" >>, << ".env", ".", "local" >>, << "llm", "/", ".env" >>,
    << "sub", "/", ".env", ".", "prod" >>,
    << "llm", "/", "models", "/", "m", ".", "gguf" >>,
    << "a", ".", "pem" >>, << "d", "/", "a", ".", "KEY" >>, << "d", "/", "a", ".", "key" >>,
    << "a", ".", "pfx" >>, << "d", "/", "a", ".", "keystore" >>,
    << "src", "/", "a", ".", "js" >>, << "node_modules", "/", "x" >>,
    << "app", ".", "log" >>, << "README", ".", "md" >> }

StagedValues == { st \in SUBSET PathValues : Cardinality(st) \in 1..MaxStaged }

\* the banners generate-commit.sh prints around the message
BannerStart == << "===== COMMIT MESSAGE =====" >>

BannerEnd == << "==========================" >>

CommitTypes == {"feat", "fix", "refactor", "chore", "docs", "test", "perf"}

IsBlankLine(l) == \A i \in 1..Len(l) : IsSpace(l[i])

\* the index of the first line of ls, from index from on, that satisfies
\* the test; 0 when there is none
FirstLine(ls, from, Test(_)) ==
  LET hits == { i \in from..Len(ls) : Test(ls[i]) }
  IN  IF hits = {} THEN 0 ELSE CHOOSE i \in hits : \A j \in hits : i <= j

\* the lines of a text after trimEnd()
TrimEndLines(ls) ==
  LET kept == { i \in 1..Len(ls) : ~IsBlankLine(ls[i]) }
      last == CHOOSE i \in kept : \A j \in kept : j <= i
  IN  IF kept = {} THEN << >>
      ELSE SubSeq(ls, 1, last - 1) \o << DropTrailingSpace(ls[last]) >>

\* the lines of a text after trim()
TrimLinesBlock(ls) ==
  LET kept == { i \in 1..Len(ls) : ~IsBlankLine(ls[i]) }
      first == CHOOSE i \in kept : \A j \in kept : i <= j
      tail == TrimEndLines(SubSeq(ls, first, Len(ls)))
  IN  IF kept = {} THEN << >>
      ELSE << DropLeadingSpace(tail[1]) >> \o Tail(tail)

IsStartBanner(l) == TrimLine(l) = BannerStart

IsEndBanner(l) == TrimLine(l) = BannerEnd

\* extractCommitMessage: the lines between the banners, trimmed; no line
\* when a banner is missing
extractCommitMessage(genOut) ==
  LET start == FirstLine(genOut, 1, IsStartBanner)
      end == FirstLine(genOut, start + 1, IsEndBanner)
  IN  IF start = 0 \/ end = 0 THEN << >>
      ELSE TrimLinesBlock(SubSeq(genOut, start + 1, end - 1))

IsNonBlankLine(l) == ~IsBlankLine(l)

\* /^(feat|fix|refactor|chore|docs|test|perf)(\([^)]+\))?:\s+.+/
HasTypePrefix(l) ==
  /\ Len(l) >= 1
  /\ l[1] \in CommitTypes
  /\ LET k == IF Len(l) >= 2 /\ l[2] = "(scope)" THEN 3 ELSE 2
     IN  /\ Len(l) >= k + 2
         /\ l[k] = ":"
         /\ IsSpace(l[k + 1])

\* applyType: the subject gets the selected type
applyType(commitType, message) ==
  LET idx == FirstLine(message, 1, IsNonBlankLine)
      subject0 == IF idx > 0 THEN TrimLine(message[idx]) ELSE << >>
      rest_lines == IF idx > 0 THEN SubSeq(message, idx + 1, Len(message)) ELSE << >>
      subject == IF HasTypePrefix(subject0) THEN << commitType >> \o Tail(subject0)
                 ELSE << commitType, ":", " " >>
                        \o (IF subject0 # << >> THEN subject0 ELSE << "update" >>)
  IN  << subject >>
        \o (IF \E i \in 1..Len(rest_lines) : ~IsBlankLine(rest_lines[i])
            THEN << << >> >> \o TrimEndLines(rest_lines) ELSE << >>)

\* /^(\s*)([-*...])(\s*)(.*)$/ : one line of the body
normalize_bullet(l) ==
  LET indent == Len(l) - Len(DropLeadingSpace(l))
      content == TrimLine(SubSeq(l, indent + 2, Len(l)))
  IN  IF IsBlankLine(l) THEN l
      ELSE IF l[indent + 1] \notin {"-", "*"} THEN l
      ELSE IF content = << >> THEN << >>
      ELSE SubSeq(l, 1, indent) \o << "-", " " >> \o content

\* runs of blank lines become one empty line
RECURSIVE compact_blank(_, _)
compact_blank(ls, prevEmpty) ==
  IF ls = << >> THEN << >>
  ELSE IF IsBlankLine(Head(ls))
  THEN (IF prevEmpty THEN << >> ELSE << << >> >>) \o compact_blank(Tail(ls), TRUE)
  ELSE << Head(ls) >> \o compact_blank(Tail(ls), FALSE)

\* normalizeBulletBody
normalizeBulletBody(fullMsg) ==
  LET idx == FirstLine(fullMsg, 1, IsNonBlankLine)
      subject == TrimLine(fullMsg[idx])
      rest == SubSeq(fullMsg, idx + 1, Len(fullMsg))
      rest_lines == TrimEndLines(compact_blank([i \in 1..Len(rest) |-> normalize_bullet(rest[i])],
                                         FALSE))
  IN  IF idx = 0 THEN << >>
      ELSE IF rest_lines = << >> THEN << subject >>
      \* a body that starts with a newline is appended as it is
      ELSE IF rest_lines[1] = << >> /\ Len(rest_lines) >= 2 THEN << subject >> \o Tail(rest_lines)
      ELSE << subject >> \o rest_lines

\* the lines of a message the generator can print between the banners
MessageLineValues ==
  { << >>, << " " >>, << "feat", ":", " ", "x" >>, << "fix", "(scope)", ":", " ", "x" >>,
    << "add", " ", "x" >>, << "-", "x" >>, << " ", "*", " ", " ", "y", " " >>, << "-" >> }

MessageValues ==
  { << >> } \cup { << l >> : l \in MessageLineValues }
    \cup { << l, m >> : l \in MessageLineValues, m \in MessageLineValues }
    \cup { << l, << >>, << "-", "x" >> >> : l \in MessageLineValues }

\* what generate-commit.sh can write to its standard output
GenOutValues ==
  { (IF b[1] THEN << << "[info]" >>, BannerStart >> ELSE << << "[info]" >> >>)
      \o m \o (IF b[2] THEN << BannerEnd >> ELSE << >>)
    : b \in BOOLEAN \X BOOLEAN, m \in MessageValues }

\* the answers to 'Commit now? [Y/n]', as prompt() returns them
AnswerValues == {"", "y", "Y", "yes", "YES", "n", "No", "maybe"}

\* toLowerCase()
LowerAnswer(a) ==
  CASE a = "Y" -> "y" [] a = "YES" -> "yes" [] a = "No" -> "no" [] OTHER -> a

confirm_decision_yes_unless_no(a) ==
  LET t == LowerAnswer(a)
  IN  IF t \in {"n", "no"} THEN "no" ELSE "yes"

\* one round of confirmCommit
confirm_decision(a) ==
  LET t == LowerAnswer(a)
  IN  IF t = "" \/ t \in {"y", "yes"} THEN "yes"
      ELSE IF t \in {"n", "no"} THEN "no"
      ELSE "again"

InitGc ==
  /\ ScriptIdle
  /\ \E st \in StagedValues :
       call = [fn |-> "gc", pc |-> "select_type", staged |-> st, committed |-> {},
               status |-> Running, initial |-> st, type |-> "chore", action |-> 0,
               gen_ran |-> FALSE, gen_staged |-> {}, gen_status |-> 0,
               block |-> << >>, preview |-> << >>, answers |-> << >>,
               commit_invoked |-> FALSE, commit_msg |-> << >>]

GcDie(status) == call' = [call EXCEPT !.pc = "exited", !.status = status]

\* selectCommitType: a choice of 1..7 (or nothing) goes on, any other dies
GcSelectType ==
  /\ call.fn = "gc"
  /\ call.pc = "select_type"
  /\ \E choice \in {"chore", "fix", "invalid"} :
       IF choice # "invalid"
       THEN call' = [call EXCEPT !.pc = "handle_forbidden", !.type = choice]
       ELSE GcDie(1)
  /\ UNCHANGED pipeline_vars

unstage_dies_only_when_empty(unstaged, forbidden, rest) == rest = {}

\* handleForbiddenFiles after the answer 2: die when a file could not be
\* unstaged or nothing is staged any more
unstage_dies(unstaged, forbidden, rest) == unstaged # forbidden \/ rest = {}

\* handleForbiddenFiles: list, ask, abort or unstage each forbidden file
GcHandleForbidden ==
  /\ call.fn = "gc"
  /\ call.pc = "handle_forbidden"
  /\ LET forbidden == { f \in call.staged : isForbiddenPath(f) }
     IN  IF forbidden = {}
         THEN call' = [call EXCEPT !.pc = "generate"]
         ELSE \E act \in {1, 2, 3} :
                IF act # 2 THEN call' = [call EXCEPT !.action = act, !.pc = "exited",
                                                     !.status = 1]
                ELSE \E unstaged \in SUBSET forbidden :
                       LET rest == call.staged \ unstaged
                       IN  IF unstage_dies(unstaged, forbidden, rest)
                           THEN call' = [call EXCEPT !.action = act, !.staged = rest,
                                                     !.pc = "exited", !.status = 1]
                           ELSE call' = [call EXCEPT !.action = act, !.staged = rest,
                                                     !.pc = "generate"]
  /\ UNCHANGED pipeline_vars

\* runGenerator, extractCommitMessage, applyType, normalizeBulletBody and
\* the preview: die when the generator fails or no message is found
GcRunGenerator ==
  /\ call.fn = "gc"
  /\ call.pc = "generate"
  /\ \E gen_status \in {0, 1}, genOut \in GenOutValues :
       LET block == extractCommitMessage(genOut)
           ran == [call EXCEPT !.gen_ran = TRUE, !.gen_staged = call.staged,
                               !.gen_status = gen_status]
       IN  call' =
             IF gen_status # 0 THEN [ran EXCEPT !.pc = "exited", !.status = 1]
             ELSE IF block = << >>
             THEN [ran EXCEPT !.pc = "exited", !.status = 1]
             ELSE [ran EXCEPT !.block = block, !.pc = "confirm",
                              !.preview = normalizeBulletBody(applyType(call.type, block))]
  /\ UNCHANGED pipeline_vars

\* confirmCommit: yes goes on to the commit, no ends the flow without one,
\* anything else asks again
GcConfirm ==
  /\ call.fn = "gc"
  /\ call.pc = "confirm"
  /\ \E a \in AnswerValues :
       /\ Len(call.answers) < MaxAsks \/ confirm_decision(a) # "again"
       /\ LET asked == [call EXCEPT !.answers = Append(call.answers, a)]
          IN  call' = CASE confirm_decision(a) = "yes" -> [asked EXCEPT !.pc = "commit"]
                        [] confirm_decision(a) = "no" ->
                             [asked EXCEPT !.pc = "exited", !.status = 0]
                        [] OTHER -> asked
  /\ UNCHANGED pipeline_vars

\* gitCommit: git commit --file=- records what is staged, or fails
GcCommit ==
  /\ call.fn = "gc"
  /\ call.pc = "commit"
  /\ \E ok \in BOOLEAN :
       LET invoked == [call EXCEPT !.commit_invoked = TRUE, !.commit_msg = call.preview]
       IN  call' = IF ok THEN [invoked EXCEPT !.committed = call.staged, !.staged = {},
                                              !.pc = "exited", !.status = 0]
                   ELSE [invoked EXCEPT !.pc = "exited", !.status = 1]
  /\ UNCHANGED pipeline_vars

\* the SIGINT handler: process.exit(130)
GcInterrupt ==
  /\ call.fn = "gc"
  /\ call.pc # "exited"
  /\ GcDie(130)
  /\ UNCHANGED pipeline_vars

NextGc ==
  \/ GcSelectType
  \/ GcHandleForbidden
  \/ GcRunGenerator
  \/ GcConfirm
  \/ GcCommit
  \/ GcInterrupt

SpecGc == InitGc /\ [][NextGc]_vars

----------------------------------------------------------------------------
\* install.sh and uninstall.sh

Absent == << "<absent>" >>

\* LINE of install.sh, as one line of an rc file
LoaderLine == "[ -f $HOME/.homelab-dev-tools/lib/env.sh ] && . $HOME/.homelab-dev-tools/lib/env.sh"

\* a line a user wrote that names the same file
UserLoaderLine == "# source ~/.homelab-dev-tools/lib/env.sh"

\* NEEDLE of uninstall.sh, in pieces
Needle == << "homelab-dev-tools", "/", "lib", "/", "env.sh" >>

\* grep 'homelab-dev-tools/lib/env.sh' matches the line
MatchesNeedle(l) == l \in {LoaderLine, UserLoaderLine}

NeedleCount(f) ==
  IF f = Absent THEN 0 ELSE Cardinality({ i \in 1..Len(f) : MatchesNeedle(f[i]) })

\* grep -q needle file
HasNeedle(f) == NeedleCount(f) > 0

RcNames == {".zshrc", ".bash_profile", ".bashrc"}

\* if echo "$SHELL" | grep -q zsh || [ -f ~/.zshrc ]; then ... else ... fi
select_rc(zsh, files) ==
  IF zsh \/ files[".zshrc"] # Absent THEN ".zshrc" ELSE ".bash_profile"

already_configured_never(f) == FALSE

\* if grep -q 'homelab-dev-tools/lib/env.sh' "$RC"
already_configured(f) == HasNeedle(f)

\* [ -f "$RC" ] || touch "$RC", then the append of an empty line and LINE
\* unless the file is configured already
install_rc(f) ==
  LET touched == IF f = Absent THEN << >> ELSE f
  IN  IF already_configured(touched) THEN touched
      ELSE touched \o << "", LoaderLine >>

\* the sed script "/$NEEDLE/d": the address ends at the second "/", the
\* command is what follows it
SedScript == << "/" >> \o Needle \o << "/", "d" >>

SedCommand ==
  LET slashes == { i \in 2..Len(SedScript) : SedScript[i] = "/" }
      close == CHOOSE i \in slashes : \A j \in slashes : i <= j
  IN  SubSeq(SedScript, close + 1, Len(SedScript))

\* sed accepts the script only when the command after the address is d
SedAccepts == SedCommand = << "d" >>

\* remove_line_from fails (and set -e ends uninstall.sh) when the file has
\* the needle and sed rejects the script
sed_fails(f) == f # Absent /\ HasNeedle(f) /\ ~SedAccepts

\* the files remove_line_from is called on, in this order ($RC first)
uninstall_files(rc) == << rc, ".bashrc" >>

InitialRcValues == { Absent, << "x" >>, << UserLoaderLine >> }

InitSetup ==
  /\ ScriptIdle
  /\ \E zsh \in BOOLEAN, files \in [RcNames -> InitialRcValues] :
       call = [fn |-> "setup", zsh |-> zsh, files |-> files, target |-> FALSE,
               runs |-> 0, last |-> "none", rc |-> "", status |-> 0, written |-> {}]

\* one run of install.sh
Install ==
  /\ call.fn = "setup"
  /\ call.runs < MaxRuns
  /\ \E layout_ok \in BOOLEAN :
       LET rc == select_rc(call.zsh, call.files)
           after == install_rc(call.files[rc])
       IN  call' = IF ~layout_ok
                   THEN [call EXCEPT !.runs = call.runs + 1, !.last = "install",
                                     !.rc = "", !.status = 1]
                   ELSE [call EXCEPT !.runs = call.runs + 1, !.last = "install",
                                     !.rc = rc, !.status = 0, !.target = TRUE,
                                     !.files = [call.files EXCEPT ![rc] = after],
                                     !.written =
                                        IF NeedleCount(after) > NeedleCount(call.files[rc])
                                        THEN call.written \cup {rc} ELSE call.written]
  /\ UNCHANGED pipeline_vars

\* one run of uninstall.sh
Uninstall ==
  /\ call.fn = "setup"
  /\ call.runs < MaxRuns
  /\ LET rc == select_rc(call.zsh, call.files)
         fs == uninstall_files(rc)
         failed == \E i \in 1..Len(fs) : sed_fails(call.files[fs[i]])
     IN  call' = IF failed
                 THEN [call EXCEPT !.runs = call.runs + 1, !.last = "uninstall",
                                   !.rc = rc, !.status = 1]
                 ELSE [call EXCEPT !.runs = call.runs + 1, !.last = "uninstall",
                                   !.rc = rc, !.status = 0, !.target = FALSE]
  /\ UNCHANGED pipeline_vars

\* between the runs: $SHELL changes, or ~/.zshrc is created
EnvironmentChanges ==
  /\ call.fn = "setup"
  /\ \/ call' = [call EXCEPT !.zsh = ~call.zsh, !.last = "env"]
     \/ /\ call.files[".zshrc"] = Absent
        /\ call' = [call EXCEPT !.files = [call.files EXCEPT ![".zshrc"] = << >>],
                                !.last = "env"]
  /\ UNCHANGED pipeline_vars

NextSetup == Install \/ Uninstall \/ EnvironmentChanges

SpecSetup == InitSetup /\ [][NextSetup]_vars

----------------------------------------------------------------------------
\* llm.sh, macOS native mode: up, down and status run one after the other

Pids == 1..MaxPid

\* no PID file, no listener
NoPid == 0

mac_native_is_running_never(pid_file, procs) == FALSE

\* mac_native_is_running: the PID file is there and kill -0 "$pid" succeeds
mac_native_is_running(pid_file, procs) ==
  pid_file # NoPid /\ procs[pid_file] # "none"

\* port_in_use: lsof finds a listener on the port
port_in_use(listener) == listener # NoPid

after_kill_ignored(procs, ps) == procs

\* the processes after kill (and kill -9 for the ones still alive) of ps
after_kill(procs, ps) == [p \in Pids |-> IF p \in ps THEN "none" ELSE procs[p]]

\* the listener after the processes ps are gone
listener_after(listener, ps) == IF listener \in ps THEN NoPid ELSE listener

\* kill_port_listeners_if_allowed: the pids it signals
port_kill_targets(force, listener) ==
  IF force /\ listener # NoPid THEN {listener} ELSE {}

\* some process of ps is not a llama-server that llm up launched
IsForeign(procs, ps) == \E p \in ps : procs[p] # "llama"

InitLlm ==
  /\ ScriptIdle
  /\ \E force \in BOOLEAN :
       call = [fn |-> "llm", procs |-> [p \in Pids |-> "none"], pid_file |-> NoPid,
               listener |-> NoPid, force |-> force, last |-> "none",
               status |-> 0, was_running |-> FALSE, launched |-> FALSE,
               port_other |-> FALSE, foreign_signalled |-> FALSE, report |-> FALSE]

\* llm up (mac_native_up)
LlmUp ==
  /\ call.fn = "llm"
  /\ \E tools_ok \in BOOLEAN, health_status \in {0, 1}, q \in Pids :
       LET running == mac_native_is_running(call.pid_file, call.procs)
           base == [call EXCEPT !.last = "up", !.was_running = running,
                                !.launched = FALSE,
                                !.port_other = (call.listener # NoPid /\
                                                  call.procs[call.listener] # "llama")]
           \* the stale PID file is removed when the port is in use
           pid_file1 == IF port_in_use(call.listener) /\ call.pid_file # NoPid
                        THEN NoPid ELSE call.pid_file
           targets == IF port_in_use(call.listener)
                      THEN port_kill_targets(call.force, call.listener) ELSE {}
           procs1 == after_kill(call.procs, targets)
           listener1 == listener_after(call.listener, targets)
           signalled == call.foreign_signalled \/ IsForeign(call.procs, targets)
       IN  call' =
             IF ~tools_ok THEN [base EXCEPT !.status = 1]
             ELSE IF running THEN [base EXCEPT !.status = health_status]
             ELSE IF port_in_use(listener1)
             THEN [base EXCEPT !.status = 1, !.pid_file = pid_file1]
             \* no process can be started
             ELSE IF procs1[q] # "none"
             THEN [base EXCEPT !.status = 1, !.pid_file = pid_file1, !.procs = procs1,
                               !.listener = listener1, !.foreign_signalled = signalled]
             ELSE [base EXCEPT !.status = health_status, !.launched = TRUE,
                               !.procs = [procs1 EXCEPT ![q] = "llama"],
                               !.listener = q, !.pid_file = q,
                               !.foreign_signalled = signalled]
  /\ UNCHANGED pipeline_vars

\* llm down (mac_native_down)
LlmDown ==
  /\ call.fn = "llm"
  /\ LET running == mac_native_is_running(call.pid_file, call.procs)
         first == IF running THEN {call.pid_file} ELSE {}
         procs1 == after_kill(call.procs, first)
         listener1 == listener_after(call.listener, first)
         targets == port_kill_targets(call.force, listener1)
     IN  call' = [call EXCEPT
                    !.last = "down", !.status = 0, !.was_running = running,
                    !.launched = FALSE, !.port_other = FALSE,
                    !.procs = after_kill(procs1, targets),
                    !.listener = listener_after(listener1, targets),
                    !.pid_file = NoPid,
                    !.foreign_signalled =
                       \/ call.foreign_signalled
                       \/ IsForeign(call.procs, first)
                       \/ IsForeign(procs1, targets)]
  /\ UNCHANGED pipeline_vars

\* llm status (mac_native_status)
LlmStatus ==
  /\ call.fn = "llm"
  /\ call' = [call EXCEPT !.last = IF call.last = "down" THEN "status after down"
                                   ELSE "status",
                          !.report = mac_native_is_running(call.pid_file, call.procs)]
  /\ UNCHANGED pipeline_vars

\* between the commands: a process ends (the server crashes, the machine
\* is restarted), or some other program starts, with any free process id,
\* and may listen on the port when it is free
LlmEnvironment ==
  /\ call.fn = "llm"
  /\ \E p \in Pids :
       \/ /\ call.procs[p] # "none"
          /\ call' = [call EXCEPT !.last = "env", !.procs = after_kill(call.procs, {p}),
                                  !.listener = listener_after(call.listener, {p})]
       \/ /\ call.procs[p] = "none"
          /\ \E listens \in BOOLEAN :
               call' = [call EXCEPT !.last = "env", !.procs[p] = "other",
                                    !.listener = IF listens /\ call.listener = NoPid
                                                 THEN p ELSE call.listener]
  /\ UNCHANGED pipeline_vars

NextLlm == LlmUp \/ LlmDown \/ LlmStatus \/ LlmEnvironment

SpecLlm == InitLlm /\ [][NextLlm]_vars

----------------------------------------------------------------------------
\* llm.sh, macOS native mode: two llm up commands running at the same time

Ups == {1, 2}

InitLlmRace ==
  /\ ScriptIdle
  /\ \E force \in BOOLEAN :
       call = [fn |-> "llm_race", procs |-> [p \in Pids |-> "none"],
               pid_file |-> NoPid, listener |-> NoPid, force |-> force,
               pc |-> [i \in Ups |-> "is_running"], bang |-> [i \in Ups |-> NoPid],
               starting |-> {}, launched |-> {}]

\* if mac_native_is_running; then ... return 0
UpIsRunning(i) ==
  /\ call.fn = "llm_race"
  /\ call.pc[i] = "is_running"
  /\ call' = [call EXCEPT !.pc[i] =
                 IF mac_native_is_running(call.pid_file, call.procs)
                 THEN "wait_health" ELSE "port_in_use"]
  /\ UNCHANGED pipeline_vars

\* if port_in_use "$port"; then ... exit 1
UpPortInUse(i) ==
  /\ call.fn = "llm_race"
  /\ call.pc[i] = "port_in_use"
  /\ LET used == port_in_use(call.listener)
         stale == used /\ call.pid_file # NoPid
                       /\ ~mac_native_is_running(call.pid_file, call.procs)
         targets == IF used THEN port_kill_targets(call.force, call.listener) ELSE {}
         listener1 == listener_after(call.listener, targets)
     IN  call' = [call EXCEPT
                    !.pid_file = IF stale THEN NoPid ELSE call.pid_file,
                    !.procs = after_kill(call.procs, targets),
                    !.listener = listener1,
                    !.starting = call.starting \ targets,
                    !.pc[i] = IF port_in_use(listener1) THEN "exited" ELSE "launch"]
  /\ UNCHANGED pipeline_vars

\* nohup llama-server ... &
UpLaunch(i) ==
  /\ call.fn = "llm_race"
  /\ call.pc[i] = "launch"
  /\ \E q \in Pids :
       /\ call.procs[q] = "none"
       /\ call' = [call EXCEPT !.procs[q] = "llama", !.bang[i] = q,
                               !.starting = call.starting \cup {q},
                               !.launched = call.launched \cup {i},
                               !.pc[i] = "record"]
  /\ UNCHANGED pipeline_vars

\* echo $! > "$PID_FILE"
UpRecord(i) ==
  /\ call.fn = "llm_race"
  /\ call.pc[i] = "record"
  /\ call' = [call EXCEPT !.pid_file = call.bang[i], !.pc[i] = "wait_health"]
  /\ UNCHANGED pipeline_vars

\* wait_health; the command ends with success or, after the timeout, with 1
UpWaitHealth(i) ==
  /\ call.fn = "llm_race"
  /\ call.pc[i] = "wait_health"
  /\ \E ready \in BOOLEAN :
       call' = [call EXCEPT !.pc[i] = IF ready THEN "returned" ELSE "exited"]
  /\ UNCHANGED pipeline_vars

\* a launched llama-server gets to listen on the port, and ends when some
\* other process is listening on it already
ServerBinds ==
  /\ call.fn = "llm_race"
  /\ \E p \in call.starting :
       call' = [call EXCEPT
                  !.starting = call.starting \ {p},
                  !.listener = IF call.listener = NoPid THEN p ELSE call.listener,
                  !.procs = IF call.listener = NoPid THEN call.procs
                            ELSE after_kill(call.procs, {p})]
  /\ UNCHANGED pipeline_vars

NextLlmRace ==
  \/ \E i \in Ups : UpIsRunning(i)
  \/ \E i \in Ups : UpPortInUse(i)
  \/ \E i \in Ups : UpLaunch(i)
  \/ \E i \in Ups : UpRecord(i)
  \/ \E i \in Ups : UpWaitHealth(i)
  \/ ServerBinds

SpecLlmRace == InitLlmRace /\ [][NextLlmRace]_vars

----------------------------------------------------------------------------
\* splitDiscordMessage

DEFAULT_MAX_LEN == 2000

\* a maxLen below this is replaced by DEFAULT_MAX_LEN
MinMaxLen == 50

EmptyMessage ==
  << "(", "e", "m", "p", "t", "y", " ", "m", "e", "s", "s", "a", "g", "e", ")" >>

\* String.prototype.trimEnd
trimEnd(s) ==
  LET kept == { n \in 0..Len(s) : \A i \in (n + 1)..Len(s) : IsSpace(s[i]) }
  IN  SubSeq(s, 1, CHOOSE n \in kept : \A m \in kept : n <= m)

\* String.prototype.split with a separator of one or two characters
RECURSIVE SplitOn(_, _, _)
SplitOn(s, sep, from) ==
  LET at == { i \in from..(Len(s) - Len(sep) + 1) :
                SubSeq(s, i, i + Len(sep) - 1) = sep }
      first == CHOOSE k \in at : \A j \in at : k <= j
      rest(i) == << SubSeq(s, from, i - 1) >> \o SplitOn(s, sep, i + Len(sep))
  IN  IF at = {} THEN << SubSeq(s, from, Len(s)) >> ELSE Once(rest, first)

RECURSIVE JoinWith(_, _)
JoinWith(parts, sep) ==
  IF Len(parts) = 1 THEN parts[1]
  ELSE parts[1] \o sep \o JoinWith(Tail(parts), sep)

\* .replace(/\r\n/g, '\n')
replace_crlf(s) == JoinWith(SplitOn(s, << "\r", "\n" >>, 1), << "\n" >>)

RECURSIVE hardSplit(_, _)
hardSplit(line, maxLen) ==
  IF line = << >> THEN << >>
  ELSE << SubSeq(line, 1, IF Len(line) < maxLen THEN Len(line) ELSE maxLen) >>
         \o hardSplit(SubSeq(line, maxLen + 1, Len(line)), maxLen)

\* pushCur, on the pair of out and cur
pushCur(st) ==
  LET v == trimEnd(st.cur)
  IN  [out |-> IF v # << >> THEN Append(st.out, v) ELSE st.out, cur |-> << >>]

split_line_always_joined(st, line, maxLen) ==
  IF Len(line) <= maxLen
  THEN IF st.cur = << >> THEN [st EXCEPT !.cur = line]
       ELSE [st EXCEPT !.cur = st.cur \o << "\n" >> \o line]
  ELSE LET pushed == pushCur(st)
       IN  [pushed EXCEPT !.out = pushed.out \o hardSplit(line, maxLen)]

\* one line of a block that is longer than maxLen
split_line(st, line, maxLen) ==
  IF Len(line) <= maxLen
  THEN IF st.cur = << >> THEN [st EXCEPT !.cur = line]
       ELSE IF Len(st.cur) + 1 + Len(line) <= maxLen
       THEN [st EXCEPT !.cur = st.cur \o << "\n" >> \o line]
       ELSE [pushCur(st) EXCEPT !.cur = line]
  ELSE LET pushed == pushCur(st)
       IN  [pushed EXCEPT !.out = pushed.out \o hardSplit(line, maxLen)]

RECURSIVE split_lines(_, _, _, _)
split_lines(st, lines, i, maxLen) ==
  IF i > Len(lines) THEN st
  ELSE LET next == split_line(st, lines[i], maxLen)
       IN  split_lines(next, lines, i + 1, maxLen)

\* one paragraph
split_para(st, p, maxLen) ==
  LET block == trimEnd(p)
  IN  IF Len(block) > maxLen
      THEN pushCur(split_lines(pushCur(st), SplitOn(block, << "\n" >>, 1), 1, maxLen))
      ELSE IF st.cur = << >> THEN [st EXCEPT !.cur = block]
      ELSE IF Len(st.cur) + 2 + Len(block) <= maxLen
      THEN [st EXCEPT !.cur = st.cur \o << "\n", "\n" >> \o block]
      ELSE [pushCur(st) EXCEPT !.cur = block]

RECURSIVE split_paras(_, _, _, _)
split_paras(st, paras, i, maxLen) ==
  IF i > Len(paras) THEN st
  ELSE LET next == split_para(st, paras[i], maxLen)
       IN  split_paras(next, paras, i + 1, maxLen)

splitDiscordMessage(text, maxLen0) ==
  LET s == replace_crlf(text)
      maxLen == IF maxLen0 < MinMaxLen THEN DEFAULT_MAX_LEN ELSE maxLen0
      out == pushCur(split_paras([out |-> << >>, cur |-> << >>],
                                 SplitOn(s, << "\n", "\n" >>, 1), 1, maxLen)).out
  IN  IF IsBlank(s) THEN << EmptyMessage >>
      ELSE IF out # << >> THEN out ELSE << EmptyMessage >>

\* a run of n letters
Run(n) == [i \in 1..n |-> "a"]

SegmentValues ==
  { Run(1), Run(24), Run(MinMaxLen + 1), Run(2 * MinMaxLen + 20),
    << " " >>, << "\n" >>, << "\n", "\n" >>, << "\r", "\n" >> }

RECURSIVE MessagesOf(_)
MessagesOf(n) ==
  IF n = 0 THEN { << >> }
  ELSE LET shorter == MessagesOf(n - 1)
       IN  shorter \cup { m \o g : m \in shorter, g \in SegmentValues }

MaxLenValues == {-1, 0, 1, 14, MinMaxLen - 1, MinMaxLen, MinMaxLen + 1, DEFAULT_MAX_LEN}

InitSplit ==
  /\ ScriptIdle
  /\ \E text \in MessagesOf(MaxSegs), maxLen \in MaxLenValues :
       call = [fn |-> "split", input |-> text, maxLen |-> maxLen,
               out |-> << >>, done |-> FALSE]

ApplySplit ==
  /\ call.fn = "split"
  /\ ~call.done
  /\ call' = [call EXCEPT !.out = splitDiscordMessage(call.input, call.maxLen),
                          !.done = TRUE]
  /\ UNCHANGED pipeline_vars

SpecSplit == InitSplit /\ [][ApplySplit]_vars

----------------------------------------------------------------------------
\* sendDiscordWebhook

\* fetch rejects: there is no response
NoResponse == 0

WebhookStatusValues == {204, 429, 500, NoResponse}

res_ok_always(status) == TRUE

\* res.ok
res_ok(status) == status \in 200..299

InitSend ==
  /\ ScriptIdle
  /\ \E content \in MessagesOf(MaxSendSegs), maxLen \in {MinMaxLen, DEFAULT_MAX_LEN},
        webhookUrl \in {"", "https://discord.com/api/webhooks/1"} :
       call = [fn |-> "send", content |-> content, maxLen |-> maxLen,
               webhookUrl |-> webhookUrl, pc |-> "start", chunks |-> << >>, i |-> 1,
               posts |-> << >>, responses |-> << >>, sent |-> 0]

\* the checks of the arguments and the split into chunks
SendStart ==
  /\ call.fn = "send"
  /\ call.pc = "start"
  /\ call' = IF call.webhookUrl = "" THEN [call EXCEPT !.pc = "thrown"]
             ELSE [call EXCEPT !.chunks = splitDiscordMessage(call.content, call.maxLen),
                               !.pc = "fetch"]
  /\ UNCHANGED pipeline_vars

\* fetch(webhookUrl, ...) for the chunk at hand
SendFetch ==
  /\ call.fn = "send"
  /\ call.pc = "fetch"
  /\ call' = [call EXCEPT !.posts = Append(call.posts, call.chunks[call.i]),
                          !.pc = "await"]
  /\ UNCHANGED pipeline_vars

\* the awaited fetch settles
SendSettles ==
  /\ call.fn = "send"
  /\ call.pc = "await"
  /\ \E status \in WebhookStatusValues :
       call' = [call EXCEPT
                  !.responses = Append(call.responses, status),
                  !.i = IF res_ok(status) THEN call.i + 1 ELSE call.i,
                  !.pc = IF ~res_ok(status) THEN "thrown"
                         ELSE IF call.i = Len(call.chunks) THEN "returned"
                         ELSE "fetch",
                  !.sent = IF res_ok(status) /\ call.i = Len(call.chunks)
                           THEN Len(call.chunks) ELSE call.sent]
  /\ UNCHANGED pipeline_vars

NextSend == SendStart \/ SendFetch \/ SendSettles

SpecSend == InitSend /\ [][NextSend]_vars

----------------------------------------------------------------------------
\* Properties of the retry loop

IsCtxExceeded(code, b) ==
  /\ code = "400"
  /\ b.kind = "exceed_context_size_error"
  /\ b.n_prompt_tokens > 0
  /\ b.n_ctx > 0

\* the latest attempt failed and its failure is being, or has been, handled
FailureSeen == pc \in {"failure", "exited"} /\ posts # << >> /\ http_code # "200"

\* C1: when an attempt's POST returns HTTP 400 with a context-exceeded body
\* (n_prompt_tokens > 0, n_ctx > 0) and attempt < maxRetries, the run does
\* not end: the handler sets currentMax to the computed newMax, adds one to
\* attempt and goes back to the loop for a further POST.
C1_RetryOnContextExceeded ==
  [][ (pc = "failure" /\ IsCtxExceeded(http_code, body) /\ attempt < MAX_RETRIES)
        => /\ pc' = "loop"
           /\ exit_code' = Running
           /\ attempt' = attempt + 1
           /\ cur_max' \in new_max_of(cur_max, body.n_prompt_tokens, body.n_ctx) ]_vars

\* a transport failure, a non-200 status other than 400, or a 400 without
\* the context-exceeded marker
IsHardFailure(code, b) ==
  \/ code = "000"
  \/ code \notin {"", "000", "200", "400"}
  \/ code = "400" /\ b.kind # "exceed_context_size_error"

Surfaced(code, b) == \E i \in 1..Len(stderr) : stderr[i].http = code /\ stderr[i].body = b

\* C2: after an attempt that ends in a hard failure the status and the body
\* are on stderr, and the next step is the exit with a non-zero status: no
\* further POST, and attempt is left as it is (1 on the first attempt).
C2_HardFailureIsFatal ==
  /\ [](FailureSeen /\ IsHardFailure(http_code, body)
          => /\ Surfaced(http_code, body)
             /\ Len(posts) = 1 => attempt = 1
             /\ pc = "exited" => exit_code # 0)
  /\ [][ (pc = "failure" /\ IsHardFailure(http_code, body))
           => /\ pc' = "exited"
              /\ exit_code' # 0
              /\ attempt' = attempt
              /\ posts' = posts ]_vars

C2_Witness ==
  /\ pc = "exited"
  /\ http_code = "500"
  /\ Len(posts) = 1
  /\ MAX_RETRIES = DefaultMaxRetries

\* C3: one invocation issues at most maxRetries POSTs, whatever the server
\* answers, and then ends (success or fatal); it does not loop for ever.
C3_RetryTermination ==
  /\ [](Len(posts) <= MAX_RETRIES)
  /\ <>(pc = "exited")

C3_Witness ==
  /\ pc = "exited"
  /\ MAX_RETRIES >= 1
  /\ Len(posts) = MAX_RETRIES

\* C4: with maxRetries = 3 and every attempt answered by the context-exceeded
\* 400, the run makes exactly 3 attempts and ends fatal (non-zero) with the
\* diagnostic that names the exhausted retries.
C4_ExhaustionAfterThreeAttempts ==
  (/\ pc = "exited"
   /\ MAX_RETRIES = DefaultMaxRetries
   /\ posts # << >>
   /\ IsCtxExceeded(http_code, body))
    => /\ Len(posts) = DefaultMaxRetries
       /\ exit_code # 0
       /\ \E i \in 1..Len(stdout) : stdout[i] = EmptyResultDiagnostic[1]

PreconditionFails ==
  \/ health.code # "200"
  \/ ~staged
  \/ system_file \in {Missing, << >>}
  \/ user_file \in {Missing, << >>}

\* C5: when the health probe does not return 200, nothing is staged, or a
\* prompt template is missing or empty, no POST is issued and the run ends
\* with a non-zero status; with nothing staged the bundler is not called.
C5_NoPostWhenPreconditionFails ==
  /\ PreconditionFails => (posts = << >> /\ (pc = "exited" => exit_code # 0))
  /\ ~staged => bundler_calls = 0

C5_Witness ==
  /\ pc = "exited"
  /\ health.code = "200"
  /\ staged
  /\ system_file = SystemTemplate
  /\ user_file = Missing
  /\ bundler_calls = 1

----------------------------------------------------------------------------
\* Properties of the shrink computation

ShrinkDone == call.fn = "new_max" /\ call.done

RatioBelowOne(a, c) == clamped_ratio(a, c)[1] < clamped_ratio(a, c)[2]

\* C6 as stated: newMax < currentMax whenever r < 1, and newMax >= 2000.
C6_ShrinkStrictForEveryMax ==
  ShrinkDone =>
    /\ RatioBelowOne(call.a, call.c) => call.out < call.m
    /\ call.out >= FloorChars

\* C6: newMax >= 2000 always, and newMax < currentMax whenever r < 1 and
\* currentMax is above the floor of 2000.
C6_ShrinkStrictAboveFloor ==
  ShrinkDone =>
    /\ (RatioBelowOne(call.a, call.c) /\ call.m > FloorChars) => call.out < call.m
    /\ call.out >= FloorChars

C6_Witness ==
  /\ ShrinkDone
  /\ call.m = FloorChars + 1
  /\ call.out = FloorChars

IsScenarioB ==
  /\ ShrinkDone
  /\ call.m = DefaultMaxChars
  /\ call.a = ScenarioPromptTokens
  /\ call.c = ScenarioCtx

C8_CurMaxBoundedByFloor ==
  /\ [](attempt >= 1 => (FloorChars <= cur_max /\ cur_max <= MAX_CHARS))
  /\ [][attempt >= 1 => cur_max' <= cur_max]_vars

\* C8: currentMax <= configured maximum in every state of the loop,
\* currentMax >= 2000 when the configured maximum is at least 2000, and
\* currentMax never increases.
C8_CurMaxBounded ==
  /\ [](attempt >= 1 =>
          /\ cur_max <= MAX_CHARS
          /\ MAX_CHARS >= FloorChars => cur_max >= FloorChars)
  /\ [][attempt >= 1 => cur_max' <= cur_max]_vars

C8_Witness ==
  /\ pc = "exited"
  /\ MAX_CHARS = DefaultMaxChars
  /\ cur_max = DefaultMaxChars
  /\ IsCtxExceeded(http_code, body)

----------------------------------------------------------------------------
\* Properties of truncate

TruncateDone == call.fn = "truncate" /\ call.done

IsDigit(ch) == \E d \in 1..10 : Digits[d] = ch

DigitValue(ch) == (CHOOSE d \in 1..10 : Digits[d] = ch) - 1

\* the number a run of decimal digits states
RECURSIVE ParseDecimal(_)
ParseDecimal(ds) ==
  IF ds = << >> THEN 0
  ELSE 10 * Once(ParseDecimal, Front(ds)) + DigitValue(ds[Len(ds)])

MarkerHead == Chars("\n\n... (") \o Chars("truncated ")

MarkerTail == Chars(" chars)")

\* t is the marker text stating n removed characters
IsMarkerFor(t, n) ==
  LET digits == SubSeq(t, Len(MarkerHead) + 1, Len(t) - Len(MarkerTail))
  IN  /\ Len(t) > Len(MarkerHead) + Len(MarkerTail)
      /\ SubSeq(t, 1, Len(MarkerHead)) = MarkerHead
      /\ SubSeq(t, Len(t) - Len(MarkerTail) + 1, Len(t)) = MarkerTail
      /\ \A i \in 1..Len(digits) : IsDigit(digits[i])
      /\ ParseDecimal(digits) = n

\* C9: for a bundle longer than max, truncate gives exactly the first max
\* characters followed by a marker stating length(bundle) - max removed
\* characters.
C9_TruncateCutsAndMarks ==
  (TruncateDone /\ Len(call.text) > call.max) =>
    /\ Len(call.out) > call.max
    /\ \A i \in 1..call.max : call.out[i] = call.text[i]
    /\ IsMarkerFor(SubSeq(call.out, call.max + 1, Len(call.out)),
                   Len(call.text) - call.max)

C9_Witness ==
  /\ TruncateDone
  /\ call.max = 2
  /\ Len(call.text) = MaxLen

\* C10: for a bundle not longer than max (length equal to max included),
\* truncate returns the bundle unchanged, with no marker.
C10_TruncateKeepsShortText ==
  (TruncateDone /\ Len(call.text) <= call.max) => call.out = call.text

C10_Witness ==
  /\ TruncateDone
  /\ Len(call.text) = call.max
  /\ call.max = MaxBundleLen
  /\ call.out = call.text

----------------------------------------------------------------------------
\* Properties of the sanitizer

SanitizedTwice == call.fn = "sanitize" /\ call.passes = 2

\* the first pass left nothing for a second one: every line is trimmed, the
\* text does not start with a fence marker and is not wrapped in quotes
AlreadyClean(t) ==
  /\ Once(TrimEachLine, t) = t
  /\ ~Once(StartsWithFence, Once(SplitLines, t))
  /\ ~IsQuoted(t, "\"") /\ ~IsQuoted(t, "'")

\* C11 as stated: for every raw model output x the sanitizer applied to
\* sanitize(x) gives sanitize(x) again, nested outer quotes, whitespace
\* inside the outer quotes and nested fences included.
C11_SanitizerIdempotent ==
  SanitizedTwice => ~call.failed /\ call.twice = call.once

\* C11, amended: when sanitize(x) is already clean (its lines are trimmed,
\* it does not start with a fence marker and is not wrapped in a pair of
\* quotes), the sanitizer applied to it returns it unchanged.
C11_SanitizerIdempotentOnClean ==
  SanitizedTwice /\ AlreadyClean(call.once) => ~call.failed /\ call.twice = call.once

\* a fenced and quoted raw output whose sanitized form is clean and was
\* sanitized again
C11_Witness ==
  /\ SanitizedTwice
  /\ AlreadyClean(call.once)
  /\ call.once # << >>
  /\ call.once # call.text

\* C12: for a raw output that is a fenced block (fence line with an optional
\* language tag, content, closing fence line) the sanitizer returns exactly
\* the content between the fence lines: fence / "feat: add x" / fence
\* gives "feat: add x".
C12_FencedBlockYieldsContent ==
  \A lang \in { << >>, << "s", "h" >> } :
    (call.fn = "sanitize" /\ call.passes >= 1
       /\ call.text = FencedBlock(lang, ScenarioDMessage))
      => ~call.failed /\ call.once = ScenarioDMessage

----------------------------------------------------------------------------
\* Properties of the script's endings

HasLine(lines, text) == \E i \in 1..Len(lines) : lines[i].text = text

\* the run ended on a 200 response whose message is empty after sanitizing
EmptyResultEnd ==
  /\ pc = "exited"
  /\ posts # << >>
  /\ http_code = "200"
  /\ msg = << >>
  /\ stderr = << >>

\* the run ended because the loop guard attempt <= MAX_RETRIES was false
\* with no message: the retry budget is spent
ExhaustedEnd ==
  /\ pc = "exited"
  /\ attempt > MAX_RETRIES
  /\ attempt >= 1
  /\ msg = << >>

\* the headline of the diagnostic
EmptyResultHeadline == EmptyResultDiagnostic[1].text

\* when the retry budget is spent the run prints this headline
ExhaustedPrintsHeadline == ExhaustedEnd => HasLine(stdout, EmptyResultHeadline)

\* C13: the diagnostic of a run that ends on an empty message after a 200
\* response differs from the diagnostic of a run that ends because the
\* retry budget is spent: the headline printed on exhaustion is not printed
\* for the empty result.
C13_EmptyResultToldApart ==
  EmptyResultEnd => ~HasLine(stdout, EmptyResultHeadline)

\* the run ended without a commit message: a precondition failed, the
\* request failed, the retry budget is spent or the result is empty
FailingEnd == pc = "exited" /\ msg = << >>

SuccessEnd == pc = "exited" /\ msg # << >>

\* C14: every failing end of the run (precondition failure, fatal request
\* error, retries exhausted, empty result) has a non-zero exit status and
\* its diagnostic on stderr.
C14_FailureOnStderr ==
  FailingEnd => exit_code # 0 /\ stderr # << >>

\* the sanitized forms of the raw response, as msg="$(...)" captures them
SanitizedValues(r) ==
  { Once(StripTrailingNewlines, sanitize_commit_message(r, seen)) : seen \in SeenValues(r) }

BannerShows(m) == \E i \in 1..Len(stdout) : stdout[i] = Line("<message>", "", EmptyBody, m)

\* C15: the --out file is written only by a run that ends in success, and
\* then holds the sanitized message that is printed between the banners,
\* ended by a newline; while the run is going on and in every failing run
\* the file is left as it was.
C15_OutFileOnlyOnSuccess ==
  /\ out_file # NotWritten
       => /\ OUT_FILE
          /\ SuccessEnd
          /\ exit_code = 0
          /\ msg \in SanitizedValues(raw)
          /\ out_file = msg \o << "\n" >>
          /\ BannerShows(msg)
  /\ (SuccessEnd /\ OUT_FILE) => out_file # NotWritten
  /\ (pc = "exited" /\ exit_code # 0) => out_file = NotWritten

\* a run with --out ended in success on a fenced response, the file written
C15_Witness ==
  /\ SuccessEnd
  /\ OUT_FILE
  /\ raw = FencedContent
  /\ out_file # NotWritten

----------------------------------------------------------------------------
\* Properties of the health probes

ReadyResponse(code, loading) == code = "200" /\ ~loading

\* C16: the endpoint is treated as ready only for a /health response with
\* status 200 and a body without "Loading model": wait_health of llm.sh
\* reports readiness for no other response.
C16_WaitHealthReadyOnly200NotLoading ==
  (call.fn = "wait_health" /\ call.state = "ready")
    => ReadyResponse(call.last.code, ContainsLoading(call.last.body))

\* the same for check_health of the generator: the run goes on past the
\* health check only for such a response
CheckHealthReadyOnly200NotLoading ==
  [][ (pc = "check_health" /\ pc' = "check_staged")
        => ReadyResponse(health.code, health.loading) ]_vars

----------------------------------------------------------------------------
\* Properties of the diff bundle

BundleDone == call.fn = "bundle" /\ call.done

BundleLines == Once(SplitLines, call.out)

\* the first line of the bundle that is the header h, 0 when there is none
LineIndex(h) ==
  LET at == { i \in 1..Len(BundleLines) : BundleLines[i] = << h >> }
  IN  IF at = {} THEN 0 ELSE CHOOSE i \in at : \A j \in at : i <= j

LineAt(i) == IF i \in 1..Len(BundleLines) THEN BundleLines[i] ELSE << >>

\* the first line a section shows for the content t
Shown(t) == IF t = << >> THEN << Placeholder >> ELSE Head(SplitLines(normalize_utf8(t)))

HasUntracked(porcelain) ==
  \E i \in 1..Len(SplitLines(porcelain)) : IsUntrackedLine(SplitLines(porcelain)[i])

\* C17 as stated: the bundle holds the four sections staged stat, short
\* status, staged diff and untracked files in this order, each with its
\* content or, when that is empty, with the placeholder.
C17_EverySectionPresent ==
  BundleDone =>
    /\ 0 < LineIndex(HeaderStat)
    /\ LineIndex(HeaderStat) < LineIndex(HeaderStatus)
    /\ LineIndex(HeaderStatus) < LineIndex(HeaderDiff)
    /\ LineIndex(HeaderDiff) < LineIndex(HeaderUntracked)
    /\ LineAt(LineIndex(HeaderStat) + 1) # << >>
    /\ LineAt(LineIndex(HeaderStatus) + 1) # << >>
    /\ LineAt(LineIndex(HeaderDiff) + 2) # << >>
    /\ LineAt(LineIndex(HeaderUntracked) + 2) # << >>

\* C17, amended: the bundle holds the sections staged stat, short status
\* and staged diff in this order, each with its content or, when that is
\* empty, with the placeholder; the untracked section follows them with
\* the untracked paths when there are any, and is left out otherwise.
C17_SectionsInOrder ==
  BundleDone =>
    /\ 0 < LineIndex(HeaderStat)
    /\ LineIndex(HeaderStat) < LineIndex(HeaderStatus)
    /\ LineIndex(HeaderStatus) < LineIndex(HeaderDiff)
    /\ LineAt(LineIndex(HeaderStat) + 1) = Shown(call.stat)
    /\ LineAt(LineIndex(HeaderStatus) + 1) = Shown(call.status)
    /\ LineAt(LineIndex(HeaderDiff) + 2) = Shown(call.diff)
    /\ IF HasUntracked(call.status)
       THEN /\ LineIndex(HeaderDiff) < LineIndex(HeaderUntracked)
            /\ LineAt(LineIndex(HeaderUntracked) + 2) \notin { << >>, << Placeholder >> }
       ELSE LineIndex(HeaderUntracked) = 0

\* a bundle built with an empty staged diff and no untracked file
C17_Witness ==
  /\ BundleDone
  /\ call.diff = << >>
  /\ call.status # << >>
  /\ ~HasUntracked(call.status)

----------------------------------------------------------------------------
\* Properties of the template renderer

RenderDone == call.fn = "render" /\ call.done

TokenPositions(tpl) == { i \in 1..Len(tpl) : tpl[i] = INPUT_TOKEN }

\* C18: the renderer puts the input, as it is, in the place of the
\* placeholder of the template: a placeholder inside the input is not
\* substituted again; a template without placeholder is returned unchanged.
C18_RenderVerbatim ==
  RenderDone =>
    LET tpl == call.tpl
        at == TokenPositions(tpl)
        k == CHOOSE i \in at : TRUE
    IN  /\ at = {} => call.out = tpl
        /\ Cardinality(at) = 1
             => call.out = SubSeq(tpl, 1, k - 1) \o call.text \o SubSeq(tpl, k + 1, Len(tpl))

\* a template with one placeholder was rendered with an input that holds
\* the placeholder token itself
C18_Witness ==
  /\ RenderDone
  /\ Cardinality(TokenPositions(call.tpl)) = 1
  /\ TokenPositions(call.text) # {}
  /\ Len(call.tpl) > 1

----------------------------------------------------------------------------
\* Properties of the temporary files

\* C19: when the run has ended, by success, by a fatal error or by a signal
\* while the HTTP call is in flight, none of the temporary files of the
\* request is on disk.
C19_NoTempFilesAfterEnd ==
  pc = "exited" => tmp_files = {}

\* the same for the ends the script reaches by itself
NoTempFilesAfterOwnEnd ==
  (pc = "exited" /\ exit_code \notin InterruptStatusValues) => tmp_files = {}

----------------------------------------------------------------------------
\* Properties of the commit flow

\* the last name of the path: the pieces after the last "/"
BaseName(p) ==
  LET slashes == { i \in 1..Len(p) : p[i] = "/" }
      last == IF slashes = {} THEN 0 ELSE CHOOSE i \in slashes : \A j \in slashes : j <= i
  IN  SubSeq(p, last + 1, Len(p))

\* the never-commit classes of the README: llm/.env, llm/models/*.gguf,
\* *.pem, *.key, *.pfx, *.keystore, .env, .env.*, at any directory depth
NeverCommit(p) ==
  \/ p = << "llm", "/", ".env" >>
  \/ StartsWith(p, << "llm", "/", "models", "/" >>) /\ EndsWith(p, << ".", "gguf" >>)
  \/ \E e \in {"pem", "key", "pfx", "keystore"} : EndsWith(p, << ".", e >>)
  \/ BaseName(p) = << ".env" >>
  \/ StartsWith(BaseName(p), << ".env", "." >>)

\* C20: the commit flow does not reach git commit while a staged path is
\* of a never-commit class of the README: each such path is found to be
\* forbidden, and the flow has ended or has unstaged it before.
C20_NeverCommitsForbidden ==
  call.fn = "gc" =>
    /\ call.pc \in {"generate", "confirm", "commit"}
         => \A f \in call.staged : ~NeverCommit(f)
    /\ \A f \in call.committed : ~NeverCommit(f)

----------------------------------------------------------------------------
\* Properties of install.sh and uninstall.sh

\* C21: after a run of uninstall.sh ~/.homelab-dev-tools does not exist
\* and no rc file an earlier install.sh wrote the loader line to has a line
\* naming homelab-dev-tools/lib/env.sh, whatever installs, uninstalls and
\* environment changes came before.
C21_UninstallRemovesAll ==
  (call.fn = "setup" /\ call.last = "uninstall")
    => /\ ~call.target
       /\ \A f \in call.written : ~HasNeedle(call.files[f])

\* the same for the runs of uninstall.sh that end with status 0
UninstallOkRemovesAll ==
  (call.fn = "setup" /\ call.last = "uninstall" /\ call.status = 0)
    => /\ ~call.target
       /\ \A f \in call.written : ~HasNeedle(call.files[f])

\* C22: a run of install.sh that gets to the rc file leaves in it exactly
\* one line naming homelab-dev-tools/lib/env.sh, and leaves the file as it
\* was when such a line was there already; so no rc file ever has two.
C22_LoaderLineOnce ==
  /\ call.fn = "setup" => \A f \in RcNames : NeedleCount(call.files[f]) <= 1
  /\ (call.fn = "setup" /\ call.last = "install" /\ call.status = 0)
       => NeedleCount(call.files[call.rc]) = 1

\* a second install.sh run has selected an rc file the first one wrote to
C22_Witness ==
  /\ call.fn = "setup"
  /\ call.last = "install"
  /\ call.status = 0
  /\ call.runs >= 2
  /\ call.rc \in call.written

----------------------------------------------------------------------------
\* Properties of llm up, llm down and llm status (macOS native mode)

\* C23: unless LLM_FORCE_KILL_PORT is 1, llm up and llm down send a kill
\* signal to no process other than a llama-server that llm up launched; and
\* llm up, finding the port held by another listener, ends with an error
\* and launches nothing.
C23_NoForeignKill ==
  (call.fn = "llm" /\ ~call.force)
    => /\ ~call.foreign_signalled
       /\ (call.last = "up" /\ call.port_other)
            => (call.status = 1 /\ ~call.launched)

LlamaServers == { p \in Pids : call.procs[p] = "llama" }

\* C27: llm up, when the PID file names a live process, launches nothing
\* and leaves the PID file and the processes as they were; and at most one
\* llama-server launched by llm up is alive at any time.
C27_UpIdempotent ==
  /\ [](call.fn = "llm" => Cardinality(LlamaServers) <= 1)
  /\ [][(/\ call.fn = "llm"
         /\ call'.last = "up"
         /\ call.pid_file # NoPid
         /\ call.procs[call.pid_file] # "none")
           => (/\ ~call'.launched
               /\ call'.pid_file = call.pid_file
               /\ call'.procs = call.procs)]_vars

\* llm up has found its server running
C27_Witness ==
  /\ call.fn = "llm"
  /\ call.last = "up"
  /\ call.was_running
  /\ ~call.launched
  /\ call.pid_file \in LlamaServers

\* C28: when llm down returns there is no PID file and the process the PID
\* file named is not alive, whether or not a server was running; llm status
\* run next reports that nothing is running.
C28_DownLeavesNothing ==
  /\ [][(call.fn = "llm" /\ call'.last = "down")
          => (/\ call'.pid_file = NoPid
              /\ call.pid_file # NoPid => call'.procs[call.pid_file] = "none")]_vars
  /\ [](call.fn = "llm" /\ call.last = "status after down" => ~call.report)

\* llm down has stopped a running server and llm status has run after it
C28_Witness ==
  /\ call.fn = "llm"
  /\ call.last = "status after down"
  /\ call.was_running
  /\ call.pid_file = NoPid

UpsEnded == \A i \in Ups : call.pc[i] \in {"returned", "exited"}

\* C29: however the steps of two llm up commands started together
\* interleave, at most one of them launches a llama-server, and when both
\* have ended every launched server still alive is the one the PID file
\* names.
C29_ConcurrentUpLaunchesOne ==
  call.fn = "llm_race"
    => /\ Cardinality(call.launched) <= 1
       /\ UpsEnded => \A p \in Pids : call.procs[p] = "llama" => call.pid_file = p

----------------------------------------------------------------------------
\* Properties of the Discord sender

SplitDone == call.fn = "split" /\ call.done

Accepted(status) == status >= 200 /\ status <= 299

\* C30: the chunks are posted in order and one at a time, a chunk only
\* after every chunk before it has got an ok response; a response that is
\* not ok ends the call with an error and no later chunk is posted; and
\* the call returns, with sent the number of chunks, only when every chunk
\* has got an ok response.
C30_ChunksPostedInOrder ==
  call.fn = "send" =>
    /\ Len(call.posts) <= Len(call.chunks)
    /\ call.posts = SubSeq(call.chunks, 1, Len(call.posts))
    /\ Len(call.posts) = Len(call.responses) + (IF call.pc = "await" THEN 1 ELSE 0)
    /\ \A k \in 1..(Len(call.responses) - 1) : Accepted(call.responses[k])
    /\ call.pc \in {"fetch", "await", "returned"}
         => \A k \in 1..Len(call.responses) : Accepted(call.responses[k])
    /\ (call.pc = "thrown" /\ call.responses # << >>)
         => ~Accepted(call.responses[Len(call.responses)])
    /\ call.pc = "returned"
         <=> (call.responses # << >> /\ Len(call.responses) = Len(call.chunks)
                /\ \A k \in 1..Len(call.responses) : Accepted(call.responses[k]))
    /\ call.sent = (IF call.pc = "returned" THEN Len(call.chunks) ELSE 0)

\* the third of five chunks was refused after two were delivered
C30_Witness ==
  /\ call.fn = "send"
  /\ call.pc = "thrown"
  /\ Len(call.chunks) >= 4
  /\ Len(call.posts) = 3
  /\ call.responses[3] = 429

----------------------------------------------------------------------------
\* Properties of the confirmation and of the forbidden-file prompt (gc)

SaysYes(a) == a \in {"", "y", "Y", "yes", "YES"}

SaysNo(a) == a \in {"n", "N", "no", "No", "NO"}

LastAnswer == call.answers[Len(call.answers)]

\* C25: git commit is invoked only after the generator has ended with
\* status 0, a message that is not empty has been found between its banners
\* and the confirmation has been answered with nothing, y or yes; after n or
\* no, after a failed generator and after an empty extraction there is no
\* commit; any other answer asks again without a commit; and the message
\* handed to git commit is the one shown in the preview.
C25_CommitOnlyAfterConfirmation ==
  call.fn = "gc" =>
    /\ call.commit_invoked
         => /\ call.gen_ran /\ call.gen_status = 0
            /\ call.block # << >>
            /\ \E i \in 1..Len(call.block) : ~IsBlankLine(call.block[i])
            /\ call.answers # << >> /\ SaysYes(LastAnswer)
            /\ call.commit_msg = call.preview
            /\ call.preview # << >>
    /\ call.pc = "commit" => (call.answers # << >> /\ SaysYes(LastAnswer))
    /\ (call.answers # << >> /\ SaysNo(LastAnswer))
         => (~call.commit_invoked /\ call.pc = "exited" /\ call.committed = {})
    /\ (call.answers # << >> /\ ~SaysYes(LastAnswer) /\ ~SaysNo(LastAnswer))
         => (~call.commit_invoked /\ call.pc \in {"confirm", "exited"}
               /\ (call.pc = "exited" => call.status = 130))
    /\ \A k \in 1..(Len(call.answers) - 1) :
         ~SaysYes(call.answers[k]) /\ ~SaysNo(call.answers[k])
    /\ (call.gen_ran /\ (call.gen_status # 0 \/ call.block = << >>))
         => (call.answers = << >> /\ ~call.commit_invoked /\ call.pc = "exited"
               /\ call.committed = {})
    /\ ~call.gen_ran => (call.answers = << >> /\ ~call.commit_invoked)

\* the confirmation was asked again and then answered with yes, and the
\* commit was made with a message of more than one line
C25_Witness ==
  /\ call.fn = "gc"
  /\ call.commit_invoked
  /\ call.committed # {}
  /\ Len(call.answers) >= 2
  /\ Len(call.commit_msg) >= 2

ForbiddenPaths == { f \in PathValues : isForbiddenPath(f) }

ForbiddenOf(st) == st \cap ForbiddenPaths

\* C26: with forbidden paths staged, the answer 1 (or none) ends the flow
\* with status 1, the index as it was and the generator not run; the answer
\* 2 unstages the forbidden paths and no other, and ends the flow when one
\* of them could not be unstaged or nothing stays staged; so when the
\* generator runs no staged path is forbidden.
C26_ForbiddenFilesHandled ==
  call.fn = "gc" =>
    /\ call.action = 1
         => (call.pc = "exited" /\ call.status = 1 /\ call.staged = call.initial
               /\ ~call.gen_ran)
    /\ call.action = 2
         => /\ call.initial \ ForbiddenOf(call.initial) \subseteq
                 (call.staged \cup call.committed)
            /\ (call.staged \cup call.committed) \subseteq call.initial
            /\ (ForbiddenOf(call.staged) # {} \/ call.staged \cup call.committed = {})
                 => (call.pc = "exited" /\ call.status = 1 /\ ~call.gen_ran)
    /\ call.gen_ran
         => (ForbiddenOf(call.gen_staged) = {} /\ call.gen_staged # {}
               /\ call.gen_staged = call.initial \ ForbiddenOf(call.initial))

\* the forbidden paths were unstaged and the generator ran on the rest
C26_Witness ==
  /\ call.fn = "gc"
  /\ call.action = 2
  /\ call.gen_ran
  /\ ForbiddenOf(call.initial) # {}
  /\ call.gen_staged # {}

====
